---- MODULE Spec2Model ----
(***************************************************************************)
(* Memory store, nightly ingestion/condensation pipeline and rank fusion   *)
(* of the brain service.                                                   *)
(*                                                                         *)
(*   services/user_memory_store.py  the user_memories table                *)
(*   services/memory_ingestion.py   run_memory_ingestion_for_user          *)
(*   tools/memory_tools.py          _rrf_merge, forget/create tools        *)
(*                                                                         *)
(* Confidences are held in hundredths (0.7 is 70).  A row id is the row's  *)
(* position in mem (rows are never removed).  Time is counted in ticks,    *)
(* DayTicks to the day; every statement that writes NOW() takes one tick.  *)
(***************************************************************************)
EXTENDS Integers, Sequences, FiniteSets, TLC

\* ---------------------------------------------------------------- bounds
MaxRuns == 2
MaxTools == 1
ExtraOld == 1
MaxUuid == 2
MaxFaults == 1
MaxRank == 2
DayTicks == 100
MaxIndexRuns == 2
BatchSize == 3
MaxSentences == 3
MaxTokens == 3
MaxWindows == 4
\* syncs of the ingestion
MaxSyncs == 2
\* largest top_k and degree_cap handed to a sync
MaxTopK == 2
MaxDegreeCap == 2
\* files of a slice
MaxDocuments == 2
\* profile_update and forget calls of a chat session after its retrieval
MaxEdits == 2

\* ------------------------------------------- constants of the program
CONFIDENCE_THRESHOLD == 70
GMAIL_DEFAULT_CONFIDENCE == 70
GMAIL_PROMO_CONFIDENCE == 55
SERVICE_DEFAULT_CONFIDENCE == 70
BESPOKE_DEFAULT_CONFIDENCE == 75
RETENTION_DAYS_PRIMARY == 365
RETENTION_DAYS_PROMO == 30
CONDENSE_AFTER_DAYS == 90
CONDENSE_BATCH_SIZE == 30
CONDENSE_MIN_ITEMS == 8
CONDENSE_MAX_SUMMARIES == 5
AUTOMATED_PENALTY == 15
UNKNOWN_PENALTY == 5
CONDENSED_CONFIDENCE == 85
RRF_CONSTANT == 60
RRF_K == 10
NUM_CHANNELS == 4
MAX_RETRIES == 3
MAX_CHUNKS_THRESHOLD == 25000
MIN_OVERLAP == 12
MAX_OVERLAP == 25
MAX_ORPHAN_RATE == 25

\* SQL NULL / Python None, one per column type
NULL == "NULL"
NULLID == <<>>
NULLT == 0
NULLCONF == 0 - 1
NULLAGE == 0 - 1

Min(a, b) == IF a <= b THEN a ELSE b

Range(s) == {s[i] : i \in DOMAIN s}

\* str.strip() on the content tokens of the model: " " is a blank text and
\* "note " a text with trailing white space; the others have none.
Strip(s) == IF s = " " THEN "" ELSE IF s = "note " THEN "note" ELSE s

\* The vector text-embedding-3-small returns for a text.
Embedding(content) == [of |-> content]

\* hashlib.sha1(...).hexdigest(), taken to be collision free
Sha1(content) == <<"sha1", content>>

VARIABLES
    mem,      \* user_memories: sequence of rows, id = index
    now,      \* the database clock, in ticks
    world,    \* what the external collaborators answer
    run,      \* per worker: the position and locals of run_memory_ingestion_for_user
    nruns,    \* runs started so far
    tool,     \* last tool call (forget/create) and what it returned
    ntools,   \* tool calls made so far
    hist,     \* history: the store as the first run left it, runs completed, faults injected
    fusion,   \* the channel lists handed to _rrf_merge and what it returned
    profile,  \* the user's profile notes (customData.notes), in order
    chunks,   \* memory_chunks: sequence of rows in created_at order, id = index
    ingestions, \* memory_ingestions: the row of each ingestion id
    indexer,  \* process_pending_chunks: its position and locals
    etl,      \* run_etl and load_slice on one slice: position, locals and what was written
    sim,      \* similarity neighbours of one ingestion: pair scores, stored similarNeighbors, the last sync
    slice     \* run_etl on a slice of several documents: the node ids it assigns, and graph_nodes after load_slice

vars == <<mem, now, world, run, nruns, tool, ntools, hist, fusion, profile, chunks, ingestions, indexer, etl, sim, slice>>

\* ------------------------------------------------- user_memory_store.py

MemoryRow(user_id, content, source_type, source_id, scope, confidence, t) ==
    [user |-> user_id, content |-> content, source_type |-> source_type,
     source_id |-> source_id, scope |-> scope, confidence |-> confidence,
     embedding |-> Embedding(content), created_at |-> t, deleted_at |-> NULLT]

\* insert_user_memory raises ValueError on empty content or when no embedding
\* can be computed; nothing is written then.
InsertRaises(content, emb_ok) == Strip(content) = "" \/ ~emb_ok

insert_user_memory(m, t, user_id, content, source_type, source_id, scope, confidence) ==
    Append(m, MemoryRow(user_id, Strip(content), source_type, source_id, scope, confidence, t))

\* The rows the SELECT of get_user_memory_by_source matches; LIMIT 1 returns any one.
get_user_memory_by_source(m, user_id, source_type, source_id, scope) ==
    IF source_id = NULLID THEN {}
    ELSE {i \in DOMAIN m : /\ m[i].user = user_id
                           /\ m[i].source_type = source_type
                           /\ m[i].source_id # NULLID
                           /\ m[i].source_id = source_id
                           /\ m[i].deleted_at = NULLT
                           /\ m[i].scope = scope}

find_user_memory_by_content(m, user_id, content, source_type, scope) ==
    {i \in DOMAIN m : /\ m[i].user = user_id
                      /\ m[i].source_type = source_type
                      /\ m[i].content = content
                      /\ m[i].deleted_at = NULLT
                      /\ m[i].scope = scope}

\* faulty variant: the UPDATE leaves the confidence column alone
update_user_memory_keeps_confidence(m, memory_id, content, confidence) ==
    [i \in DOMAIN m |->
        IF i = memory_id
        THEN [m[i] EXCEPT !.content = content, !.embedding = Embedding(content)]
        ELSE m[i]]

update_user_memory(m, memory_id, content, confidence) ==
    [i \in DOMAIN m |->
        IF i = memory_id
        THEN [m[i] EXCEPT !.content = content, !.confidence = confidence,
                          !.embedding = Embedding(content)]
        ELSE m[i]]

\* UPDATE ... SET deleted_at = NOW() on the rows of `hit`
SoftDelete(m, hit, t) ==
    [i \in DOMAIN m |-> IF i \in hit THEN [m[i] EXCEPT !.deleted_at = t] ELSE m[i]]

delete_user_memories_by_source_rows(m, user_id, source_type, source_id, scope) ==
    {i \in DOMAIN m : /\ m[i].user = user_id
                      /\ m[i].source_type = source_type
                      /\ m[i].source_id # NULLID
                      /\ m[i].source_id = source_id
                      /\ m[i].deleted_at = NULLT
                      /\ m[i].scope = scope}

delete_user_memories_not_in_sources_rows(m, user_id, source_type, source_ids, scope) ==
    IF source_ids = <<>> THEN {}
    ELSE {i \in DOMAIN m : /\ m[i].user = user_id
                           /\ m[i].source_type = source_type
                           /\ m[i].deleted_at = NULLT
                           /\ m[i].scope = scope
                           /\ m[i].source_id # NULLID
                           /\ m[i].source_id \notin Range(source_ids)}

\* faulty variant: the UPDATE lacks `AND deleted_at IS NULL`
delete_user_memory_rows_any(m, memory_id, user_id) ==
    {i \in DOMAIN m : i = memory_id /\ m[i].user = user_id}

delete_user_memory_rows(m, memory_id, user_id) ==
    {i \in DOMAIN m : i = memory_id /\ m[i].user = user_id /\ m[i].deleted_at = NULLT}

delete_user_memories_by_ids_rows(m, user_id, memory_ids) ==
    IF memory_ids = <<>> THEN {}
    ELSE {i \in DOMAIN m : /\ m[i].user = user_id
                           /\ m[i].deleted_at = NULLT
                           /\ i \in Range(memory_ids)}

\* ---------------------------------------------------- memory_ingestion.py

MemoryCandidate(content, source_type, source_id, confidence) ==
    [content |-> content, source_type |-> source_type, source_id |-> source_id,
     confidence |-> confidence, scope |-> "extraction"]

\* _classify_sender on the senders of the model
_classify_sender(sender) ==
    CASE sender = "" -> "unknown"
      [] sender = "noreply@shop.com" -> "automated"
      [] sender = "Ann Lee <ann@gmail.com>" -> "human"
      [] sender = "bob@corp.io" -> "unknown"
      [] OTHER -> "unknown"

\* age: days since last_message_at, NULLAGE when the thread carries none
_within_retention(category, age) ==
    IF age = NULLAGE THEN TRUE
    ELSE LET days == IF category = "promotions" THEN RETENTION_DAYS_PROMO
                     ELSE RETENTION_DAYS_PRIMARY
         IN age <= days

SenderPenalty(sender_type) ==
    CASE sender_type = "automated" -> AUTOMATED_PENALTY
      [] sender_type = "unknown" -> UNKNOWN_PENALTY
      [] OTHER -> 0

\* the threads the loops of the two mail fetchers do not `continue` past
MailKeep(t) ==
    /\ t.text # ""
    /\ _within_retention(t.category, t.age)
    /\ ~(/\ t.category # "promotions"
         /\ t.mailbox # "sent"
         /\ _classify_sender(t.sender) = "automated")

GmailKeep(t) == t.threadId # "" /\ MailKeep(t)

GmailCandidate(t) ==
    MemoryCandidate(t.text, "gmail", <<t.threadId>>,
        (IF t.category = "promotions" THEN GMAIL_PROMO_CONFIDENCE
         ELSE GMAIL_DEFAULT_CONFIDENCE) - SenderPenalty(_classify_sender(t.sender)))

_fetch_gmail_candidates(threads) ==
    LET kept == SelectSeq(threads, GmailKeep)
    IN [i \in DOMAIN kept |-> GmailCandidate(kept[i])]

ServiceKeep(t) == t.threadId # "" /\ t.accountId # "" /\ MailKeep(t)

ServiceCandidate(t) ==
    MemoryCandidate(t.text, "service_account", <<t.accountId, t.threadId>>,
        SERVICE_DEFAULT_CONFIDENCE - SenderPenalty(_classify_sender(t.sender)))

_fetch_service_account_candidates(threads) ==
    LET kept == SelectSeq(threads, ServiceKeep)
    IN [i \in DOMAIN kept |-> ServiceCandidate(kept[i])]

\* rows: what the SELECT on memory_chunks returned (content not null, not '')
BespokeText(r) == Strip(IF r.summary # "" THEN r.summary ELSE r.content)

BespokeKeep(r) == BespokeText(r) # ""

BespokeCandidate(r) ==
    MemoryCandidate(BespokeText(r), "bespoke", <<r.id>>, BESPOKE_DEFAULT_CONFIDENCE)

_fetch_bespoke_candidates(rows) ==
    LET kept == SelectSeq(rows, BespokeKeep)
    IN [i \in DOMAIN kept |-> BespokeCandidate(kept[i])]

\* extracted: what extract_chat_memories returned
ChatKeep(item) == Strip(item.content) # "" /\ ~(item.confidence < CONFIDENCE_THRESHOLD)

ChatCandidate(item) ==
    MemoryCandidate(Strip(item.content), "chat", Sha1(Strip(item.content)), item.confidence)

_fetch_chat_candidates(extracted) ==
    LET kept == SelectSeq(extracted, ChatKeep)
    IN [i \in DOMAIN kept |-> ChatCandidate(kept[i])]

\* ids of S ordered by created_at ascending
RECURSIVE OldestFirst(_, _)
OldestFirst(m, S) ==
    IF S = {} THEN <<>>
    ELSE LET i == CHOOSE x \in S : \A y \in S :
                      \/ m[x].created_at < m[y].created_at
                      \/ (m[x].created_at = m[y].created_at /\ x <= y)
         IN <<i>> \o OldestFirst(m, S \ {i})

CondenseQualifying(m, user_id, source_type, t) ==
    {i \in DOMAIN m : /\ m[i].user = user_id
                      /\ m[i].deleted_at = NULLT
                      /\ m[i].source_type = source_type
                      /\ m[i].scope = "extraction"
                      /\ m[i].created_at < t - CONDENSE_AFTER_DAYS * DayTicks}

_fetch_condense_candidates(m, user_id, source_type, t, limit) ==
    LET ids == OldestFirst(m, CondenseQualifying(m, user_id, source_type, t))
    IN [k \in 1..Min(Len(ids), limit) |-> [id |-> ids[k], content |-> m[ids[k]].content]]

\* reply: what the LLM answered.  kind "disabled": OpenAI is switched off;
\* "error": the call or json.loads raised; "array": a JSON array, data its
\* elements, each with the text str() gives it; "other": any other JSON value.
SummaryText(item) == Strip(item.str)

NonEmptySummary(item) == SummaryText(item) # ""

_summarize_memories(reply, items) ==
    IF items = <<>> THEN <<>>
    ELSE IF reply.kind = "array"
         THEN LET kept == SelectSeq(reply.data, NonEmptySummary)
              IN [i \in DOMAIN kept |-> SummaryText(kept[i])]
         ELSE <<>>

\* ------------------------------------------------------------ the worlds

USER == "u1"
OTHER_USER == "u2"

Thread(id, sender, category, mailbox, age, text) ==
    [threadId |-> id, accountId |-> "acc1", sender |-> sender, category |-> category,
     mailbox |-> mailbox, age |-> age, text |-> text]

\* thread "A" as the gateway may report it
ThreadsA ==
    { Thread("A", "Ann Lee <ann@gmail.com>", "primary", "inbox", 10, "x"),
      Thread("A", "Ann Lee <ann@gmail.com>", "primary", "inbox", NULLAGE, "x"),
      Thread("A", "Ann Lee <ann@gmail.com>", "primary", "inbox", 400, "x"),
      Thread("A", "Ann Lee <ann@gmail.com>", "promotions", "inbox", 100, "x"),
      Thread("A", "Ann Lee <ann@gmail.com>", "primary", "inbox", 10, ""),
      Thread("A", "bob@corp.io", "primary", "inbox", 10, "x"),
      Thread("A", "noreply@shop.com", "primary", "inbox", 10, "x"),
      Thread("A", "noreply@shop.com", "primary", "sent", 10, "x"),
      Thread("A", "noreply@shop.com", "promotions", "inbox", 10, "x") }

ThreadB == Thread("B", "Ann Lee <ann@gmail.com>", "primary", "inbox", 10, "x")

GmailAnswers ==
    {<<>>, <<ThreadB>>} \cup {<<a>> : a \in ThreadsA} \cup {<<a, ThreadB>> : a \in ThreadsA}

ServiceAnswers == {<<>>, <<Thread("S", "bob@corp.io", "primary", "inbox", 10, "x")>>}

BespokeAnswers ==
    {<<>>, <<[id |-> "c1", content |-> "doc", summary |-> ""]>>,
     <<[id |-> "c1", content |-> "doc", summary |-> " "]>>}

ChatAnswers ==
    {<<>>, <<[content |-> "1", confidence |-> 90]>>,
     <<[content |-> "1", confidence |-> 90], [content |-> "low", confidence |-> 60]>>}

SummaryNames == <<"s1", "s2", "s3", "s4", "s5", "s6", "s7">>

ArrayReply(n) ==
    [kind |-> "array", data |-> [k \in 1..n |-> [py |-> "str", str |-> SummaryNames[k]]]]

LlmReplies ==
    {ArrayReply(n) : n \in {0, 1, CONDENSE_MAX_SUMMARIES, CONDENSE_MAX_SUMMARIES + 1}}
        \cup {[kind |-> "error", data |-> <<>>]}
        \cup {[kind |-> "array", data |-> <<[py |-> "str", str |-> " "],
                                            [py |-> "str", str |-> "s1"]>>]}

\* agent: whether the chat agent calls the memory tools in this behaviour
World(g, s, b, c, l, agent) ==
    [gmail |-> g, service |-> s, bespoke |-> b, chat |-> c,
     llm |-> [gmail |-> l, chat |-> l], agent |-> agent]

\* The worlds of the model: those that vary the mail sources, those that vary
\* the chunk and chat sources, those that vary the condensation LLM, and
\* those in which the chat agent is at work.
MailWorlds ==
    {World(g, s, <<>>, <<>>, ArrayReply(1), FALSE) : g \in GmailAnswers, s \in ServiceAnswers}

ChunkChatWorlds ==
    {World(g, s, b, c, ArrayReply(1), FALSE) :
        g \in {<<>>, <<ThreadB>>}, s \in ServiceAnswers, b \in BespokeAnswers, c \in ChatAnswers}

CondenseWorlds ==
    {World(g, <<>>, <<>>, c, l, FALSE) :
        g \in {<<>>, <<ThreadB>>}, c \in {<<>>, <<[content |-> "1", confidence |-> 90]>>},
        l \in LlmReplies}

AgentWorlds ==
    {World(g, <<>>, <<>>, <<>>, ArrayReply(1), TRUE) :
        g \in {<<ThreadB>>,
               <<Thread("A", "Ann Lee <ann@gmail.com>", "primary", "inbox", 10, "x"), ThreadB>>}}

\* ------------------------------------------------------------ the stores

Now0 == 2 * CONDENSE_AFTER_DAYS * DayTicks

\* a row an earlier run wrote at time t
OldRow(user_id, source_type, source_id, content, confidence, t) ==
    MemoryRow(user_id, content, source_type, source_id, "extraction", confidence, t)

OtherUsersRows == <<OldRow(OTHER_USER, "gmail", <<"A">>, "x", 70, Now0 - 9)>>

GmailRowA(content) == OldRow(USER, "gmail", <<"A">>, content, 70, Now0 - 8)
GmailRowB == OldRow(USER, "gmail", <<"B">>, "x", 70, Now0 - 7)
ServiceRowT == OldRow(USER, "service_account", <<"acc1", "T">>, "x", 70, Now0 - 6)
ServiceRowS == OldRow(USER, "service_account", <<"acc1", "S">>, "x", 65, Now0 - 5)

FreshStores ==
    {OtherUsersRows \o rows : rows \in
        {<<>>, <<GmailRowA("x")>>, <<GmailRowA("y")>>, <<GmailRowA("x"), GmailRowB>>,
         <<[GmailRowA("x") EXCEPT !.deleted_at = Now0 - 4]>>,
         <<GmailRowA("x"), ServiceRowT>>, <<ServiceRowS, ServiceRowT>>}}

SmallStores ==
    {OtherUsersRows \o rows : rows \in
        {<<>>, <<GmailRowA("x"), GmailRowB>>,
         <<[GmailRowA("x") EXCEPT !.deleted_at = Now0 - 4], ServiceRowT>>}}

\* n rows written long ago, one tick apart: gmail threads "1".."n", or the
\* chat facts "1".."n"
AgedRow(source_type, k) ==
    OldRow(USER, source_type,
           IF source_type = "chat" THEN Sha1(ToString(k)) ELSE <<ToString(k)>>,
           ToString(k), 90, k)

\* the summary "s1" as an earlier condensation stored it
CondensedRow(source_type) ==
    MemoryRow(USER, "s1", source_type, <<"condensed:sha1", "s1">>, "condensed",
              CONDENSED_CONFIDENCE, Now0 - 3)

AgedStores ==
    {OtherUsersRows \o [k \in 1..n |-> AgedRow(st, k)] :
        st \in {"gmail", "chat"},
        n \in {CONDENSE_MIN_ITEMS - 1, CONDENSE_MIN_ITEMS, CONDENSE_BATCH_SIZE + ExtraOld}}
      \cup {OtherUsersRows \o [k \in 1..CONDENSE_MIN_ITEMS |-> AgedRow(st, k)]
                \o <<CondensedRow(st)>> : st \in {"gmail", "chat"}}

\* ------------------------------------- run_memory_ingestion_for_user

Procs == {1, 2}
\* the workers that run under Spec: nightly runs follow one another
SeqProcs == {1}

NoCount == [condensed |-> 0, deleted |-> 0]
NoResult == [returned |-> FALSE]

\* The locals of a run.  cq, cmem and cfail are history: the rows that
\* qualified and the store when the current condensation call began, and the
\* inserts of that call that raised.
IdleRun ==
    [pc |-> "idle",
     gmail_candidates |-> <<>>, gmail_ok |-> FALSE,
     service_candidates |-> <<>>, service_ok |-> FALSE,
     bespoke_candidates |-> <<>>, chat_candidates |-> <<>>,
     group |-> 1, idx |-> 1, existing |-> 0, status |-> "none",
     inserted |-> 0, updated |-> 0, skipped |-> 0,
     gmail_deleted |-> 0, service_deleted |-> 0,
     csource |-> "gmail", items |-> <<>>, summaries |-> <<>>, sidx |-> 1,
     cinserted |-> 0, condensed |-> NoCount, condensed_chat |-> NoCount,
     cq |-> {}, cmem |-> <<>>, cfail |-> 0,
     result |-> NoResult]

Groups(r) == <<r.gmail_candidates, r.service_candidates, r.bespoke_candidates, r.chat_candidates>>

\* the position of the two nested loops over the groups and their candidates:
\* the first candidate at or after (g, i), or <<5, 1>> when both loops are over
RECURSIVE UpsertPos(_, _, _)
UpsertPos(r, g, i) ==
    IF g > 4 THEN <<5, 1>>
    ELSE IF i <= Len(Groups(r)[g]) THEN <<g, i>>
    ELSE UpsertPos(r, g + 1, 1)

\* after a candidate is dealt with: on to the next one, or to the stale cleanup
AfterCandidate(r) ==
    LET pos == UpsertPos(r, r.group, r.idx + 1)
    IN IF pos[1] > 4
       THEN [r EXCEPT !.pc = "cleanup_gmail", !.group = 5, !.idx = 1, !.existing = 0]
       ELSE [r EXCEPT !.pc = "upsert_lookup", !.group = pos[1], !.idx = pos[2], !.existing = 0]

\* [c.source_id for c in candidates]
SourceIds(candidates) == [k \in DOMAIN candidates |-> candidates[k].source_id]

\* faulty variant: each cleanup is handed the other source's ids and flag
CleanupArgsSwapped(r, source_type) ==
    IF source_type = "gmail"
    THEN [source_ids |-> SourceIds(r.service_candidates), enabled |-> r.service_ok]
    ELSE [source_ids |-> SourceIds(r.gmail_candidates), enabled |-> r.gmail_ok]

\* what run_memory_ingestion_for_user passes to _cleanup_stale_sources
CleanupArgs(r, source_type) ==
    IF source_type = "gmail"
    THEN [source_ids |-> SourceIds(r.gmail_candidates), enabled |-> r.gmail_ok]
    ELSE [source_ids |-> SourceIds(r.service_candidates), enabled |-> r.service_ok]

\* the rows _cleanup_stale_sources soft-deletes
_cleanup_stale_sources_rows(m, user_id, source_type, source_ids, enabled) ==
    IF ~enabled THEN {}
    ELSE delete_user_memories_not_in_sources_rows(m, user_id, source_type, source_ids, "extraction")

\* faulty variant: the loop goes through every summary
CondenseLoopLenUncapped(r) == Len(r.summaries)

\* the summaries the loop of _condense_memories_for_source goes through
CondenseLoopLen(r) == Min(Len(r.summaries), CONDENSE_MAX_SUMMARIES)

\* _condense_memories_for_source returns `res`: on to the next source type,
\* or to the return statement of the run
CondenseReturn(r, res) ==
    IF r.csource = "gmail"
    THEN [r EXCEPT !.condensed = res, !.csource = "chat", !.pc = "condense_fetch"]
    ELSE [r EXCEPT !.condensed_chat = res, !.pc = "return"]

\* faulty variant: the batch is soft-deleted whatever the loop inserted
CondenseDeletesAlways(r) == TRUE

\* whether the rows of the batch are soft-deleted once the loop is over
CondenseDeletes(r) == ~(r.cinserted = 0)

\* after a summary is dealt with: on to the next one, or past the loop
AfterSummary(r) ==
    IF r.sidx + 1 <= CondenseLoopLen(r)
    THEN [r EXCEPT !.pc = "condense_find", !.sidx = r.sidx + 1]
    ELSE IF CondenseDeletes(r)
         THEN [r EXCEPT !.pc = "condense_delete", !.sidx = r.sidx + 1]
         ELSE CondenseReturn([r EXCEPT !.sidx = r.sidx + 1], NoCount)

RunResult(r) ==
    [returned |-> TRUE,
     gmail_candidates |-> Len(r.gmail_candidates),
     service_candidates |-> Len(r.service_candidates),
     bespoke_candidates |-> Len(r.bespoke_candidates),
     chat_candidates |-> Len(r.chat_candidates),
     inserted |-> r.inserted, updated |-> r.updated, skipped |-> r.skipped,
     deleted |-> r.gmail_deleted + r.service_deleted,
     condensed |-> r.condensed.condensed + r.condensed_chat.condensed,
     condensed_deleted |-> r.condensed.deleted + r.condensed_chat.deleted]

\* what upsert_user_memory_from_source does once the lookup returned row e
\* (0: none) whose content differs from the candidate's: [status, mem, wrote]
UpsertWriteOutcome(m, t, user_id, e, c, emb_ok) ==
    IF e # 0
    THEN IF emb_ok
         THEN [status |-> "updated", wrote |-> FALSE,
               mem |-> update_user_memory(m, e, c.content, c.confidence)]
         ELSE [status |-> "raised", wrote |-> FALSE, mem |-> m]
    ELSE IF InsertRaises(c.content, emb_ok)
         THEN [status |-> "raised", wrote |-> FALSE, mem |-> m]
         ELSE [status |-> "inserted", wrote |-> TRUE,
               mem |-> insert_user_memory(m, t, user_id, c.content, c.source_type,
                                          c.source_id, c.scope, c.confidence)]

\* _upsert_candidates counts the status; an exception counts as skipped
CountStatus(r, status) ==
    CASE status = "inserted" -> [r EXCEPT !.status = status, !.inserted = @ + 1]
      [] status = "updated" -> [r EXCEPT !.status = status, !.updated = @ + 1]
      [] OTHER -> [r EXCEPT !.status = status, !.skipped = @ + 1]

Candidate(r) == Groups(r)[r.group][r.idx]

Running(p) == run[p].pc \notin {"idle", "aborted"}

Fault(ok) == IF ok THEN 0 ELSE 1

\* the answers a call to a collaborator may get: failures are injected at
\* most MaxFaults times
Oks == IF hist.faults < MaxFaults THEN BOOLEAN ELSE {TRUE}

StartRun(p) ==
    /\ ~Running(p)
    /\ nruns < MaxRuns
    /\ run' = [run EXCEPT ![p] = [IdleRun EXCEPT !.pc = "fetch_gmail"]]
    /\ nruns' = nruns + 1
    /\ UNCHANGED <<mem, now, world, tool, ntools, hist, fusion, profile, chunks, ingestions, indexer, etl, sim, slice>>

\* _fetch_gmail_candidates: an exception of the gateway call is caught
FetchGmail(p) ==
    /\ run[p].pc = "fetch_gmail"
    /\ \E ok \in Oks :
        /\ run' = [run EXCEPT ![p] = [@ EXCEPT
                !.gmail_candidates = IF ok THEN _fetch_gmail_candidates(world.gmail) ELSE <<>>,
                !.gmail_ok = ok, !.pc = "fetch_service"]]
        /\ hist' = [hist EXCEPT !.faults = @ + Fault(ok)]
    /\ UNCHANGED <<mem, now, world, nruns, tool, ntools, fusion, profile, chunks, ingestions, indexer, etl, sim, slice>>

FetchService(p) ==
    /\ run[p].pc = "fetch_service"
    /\ \E ok \in Oks :
        /\ run' = [run EXCEPT ![p] = [@ EXCEPT
                !.service_candidates =
                    IF ok THEN _fetch_service_account_candidates(world.service) ELSE <<>>,
                !.service_ok = ok, !.pc = "fetch_bespoke"]]
        /\ hist' = [hist EXCEPT !.faults = @ + Fault(ok)]
    /\ UNCHANGED <<mem, now, world, nruns, tool, ntools, fusion, profile, chunks, ingestions, indexer, etl, sim, slice>>

\* _fetch_bespoke_candidates: an exception of the query is not caught, it
\* leaves run_memory_ingestion_for_user
FetchBespoke(p) ==
    /\ run[p].pc = "fetch_bespoke"
    /\ \E ok \in Oks :
        /\ run' = [run EXCEPT ![p] =
                IF ok THEN [@ EXCEPT !.bespoke_candidates = _fetch_bespoke_candidates(world.bespoke),
                                     !.pc = "fetch_chat"]
                ELSE [@ EXCEPT !.pc = "aborted"]]
        /\ hist' = [hist EXCEPT !.faults = @ + Fault(ok)]
    /\ UNCHANGED <<mem, now, world, nruns, tool, ntools, fusion, profile, chunks, ingestions, indexer, etl, sim, slice>>

\* _fetch_chat_candidates: an exception of fetch_recent_messages is not caught
FetchChat(p) ==
    /\ run[p].pc = "fetch_chat"
    /\ \E ok \in Oks :
        /\ run' = [run EXCEPT ![p] =
                IF ok
                THEN LET r == [@ EXCEPT !.chat_candidates = _fetch_chat_candidates(world.chat)]
                         pos == UpsertPos(r, 1, 1)
                     IN IF pos[1] > 4 THEN [r EXCEPT !.pc = "cleanup_gmail", !.group = 5]
                        ELSE [r EXCEPT !.pc = "upsert_lookup", !.group = pos[1], !.idx = pos[2]]
                ELSE [@ EXCEPT !.pc = "aborted"]]
        /\ hist' = [hist EXCEPT !.faults = @ + Fault(ok)]
    /\ UNCHANGED <<mem, now, world, nruns, tool, ntools, fusion, profile, chunks, ingestions, indexer, etl, sim, slice>>

\* upsert_user_memory_from_source, the lookup: identical content is skipped
UpsertLookup(p) ==
    /\ run[p].pc = "upsert_lookup"
    /\ LET r == run[p]
           c == Candidate(r)
           found == get_user_memory_by_source(mem, USER, c.source_type, c.source_id, c.scope)
       IN \E e \in (IF found = {} THEN {0} ELSE found) :
            run' = [run EXCEPT ![p] =
                IF e # 0 /\ mem[e].content = c.content
                THEN AfterCandidate(CountStatus(r, "skipped"))
                ELSE [r EXCEPT !.existing = e, !.pc = "upsert_write"]]
    /\ UNCHANGED <<mem, now, world, nruns, tool, ntools, hist, fusion, profile, chunks, ingestions, indexer, etl, sim, slice>>

\* upsert_user_memory_from_source, the update or the insert
UpsertWrite(p) ==
    /\ run[p].pc = "upsert_write"
    /\ \E emb_ok \in Oks :
        LET r == run[p]
            out == UpsertWriteOutcome(mem, now, USER, r.existing, Candidate(r), emb_ok)
        IN /\ mem' = out.mem
           /\ now' = IF out.wrote THEN now + 1 ELSE now
           /\ run' = [run EXCEPT ![p] = AfterCandidate(CountStatus(r, out.status))]
           /\ hist' = [hist EXCEPT !.faults = @ + Fault(emb_ok)]
    /\ UNCHANGED <<world, nruns, tool, ntools, fusion, profile, chunks, ingestions, indexer, etl, sim, slice>>

CleanupStale(p) ==
    /\ run[p].pc \in {"cleanup_gmail", "cleanup_service"}
    /\ LET r == run[p]
           st == IF r.pc = "cleanup_gmail" THEN "gmail" ELSE "service_account"
           args == CleanupArgs(r, st)
           hit == _cleanup_stale_sources_rows(mem, USER, st, args.source_ids, args.enabled)
       IN /\ mem' = SoftDelete(mem, hit, now)
          /\ now' = IF hit = {} THEN now ELSE now + 1
          /\ run' = [run EXCEPT ![p] =
                IF st = "gmail"
                THEN [r EXCEPT !.gmail_deleted = Cardinality(hit), !.pc = "cleanup_service"]
                ELSE [r EXCEPT !.service_deleted = Cardinality(hit), !.pc = "condense_fetch",
                               !.csource = "gmail"]]
    /\ UNCHANGED <<world, nruns, tool, ntools, hist, fusion, profile, chunks, ingestions, indexer, etl, sim, slice>>

\* _condense_memories_for_source up to its loop
CondenseFetch(p) ==
    /\ run[p].pc = "condense_fetch"
    /\ LET r == run[p]
           items == _fetch_condense_candidates(mem, USER, r.csource, now, CONDENSE_BATCH_SIZE)
           r1 == [r EXCEPT !.items = items, !.summaries = <<>>, !.sidx = 1, !.cinserted = 0,
                           !.cq = CondenseQualifying(mem, USER, r.csource, now),
                           !.cmem = mem, !.cfail = 0]
           summaries == _summarize_memories(world.llm[r.csource], items)
       IN run' = [run EXCEPT ![p] =
                IF Len(items) < CONDENSE_MIN_ITEMS THEN CondenseReturn(r1, NoCount)
                ELSE IF summaries = <<>> THEN CondenseReturn(r1, NoCount)
                ELSE [r1 EXCEPT !.summaries = summaries, !.pc = "condense_find"]]
    /\ UNCHANGED <<mem, now, world, nruns, tool, ntools, hist, fusion, profile, chunks, ingestions, indexer, etl, sim, slice>>

CondenseFind(p) ==
    /\ run[p].pc = "condense_find"
    /\ LET r == run[p]
           existing == find_user_memory_by_content(mem, USER, r.summaries[r.sidx],
                                                   r.csource, "condensed")
       IN run' = [run EXCEPT ![p] =
                IF existing # {} THEN AfterSummary(r) ELSE [r EXCEPT !.pc = "condense_insert"]]
    /\ UNCHANGED <<mem, now, world, nruns, tool, ntools, hist, fusion, profile, chunks, ingestions, indexer, etl, sim, slice>>

CondenseInsert(p) ==
    /\ run[p].pc = "condense_insert"
    /\ \E emb_ok \in Oks :
        LET r == run[p]
            summary == r.summaries[r.sidx]
        IN /\ IF InsertRaises(summary, emb_ok)
              THEN /\ UNCHANGED <<mem, now>>
                   /\ run' = [run EXCEPT ![p] = AfterSummary([r EXCEPT !.cfail = @ + 1])]
              ELSE /\ mem' = insert_user_memory(mem, now, USER, summary, r.csource,
                                <<"condensed:sha1", summary>>, "condensed", CONDENSED_CONFIDENCE)
                   /\ now' = now + 1
                   /\ run' = [run EXCEPT ![p] = AfterSummary([r EXCEPT !.cinserted = @ + 1])]
           /\ hist' = [hist EXCEPT !.faults = @ + Fault(emb_ok)]
    /\ UNCHANGED <<world, nruns, tool, ntools, fusion, profile, chunks, ingestions, indexer, etl, sim, slice>>

CondenseDelete(p) ==
    /\ run[p].pc = "condense_delete"
    /\ LET r == run[p]
           hit == delete_user_memories_by_ids_rows(mem, USER, [k \in DOMAIN r.items |-> r.items[k].id])
       IN /\ mem' = SoftDelete(mem, hit, now)
          /\ now' = IF hit = {} THEN now ELSE now + 1
          /\ run' = [run EXCEPT ![p] =
                CondenseReturn(r, [condensed |-> r.cinserted, deleted |-> Cardinality(hit)])]
    /\ UNCHANGED <<world, nruns, tool, ntools, hist, fusion, profile, chunks, ingestions, indexer, etl, sim, slice>>

Return(p) ==
    /\ run[p].pc = "return"
    /\ run' = [run EXCEPT ![p] = [@ EXCEPT !.result = RunResult(run[p]), !.pc = "idle"]]
    /\ hist' = [hist EXCEPT !.completed = @ + 1,
                            !.after1 = IF hist.completed = 0 THEN mem ELSE @]
    /\ UNCHANGED <<mem, now, world, nruns, tool, ntools, fusion, profile, chunks, ingestions, indexer, etl, sim, slice>>

\* ------------------------------------------------------- memory_tools.py

\* A memory id as the tools see it.  shape "uuid": the id of row `row`;
\* "gmail", "service": the prefix, `rest` what follows it (NULLID: nothing);
\* "other": any other text, such as bespoke:0 or a bare thread id.
MemoryId(shape, row, rest) == [shape |-> shape, row |-> row, rest |-> rest]

MsgOnlyStored == "Only stored memories (UUID) or profile notes can be forgotten."

\* forget_memory_tool past its profile branch: the rows it soft-deletes and
\* the message it returns
forget_memory_tool(m, user_id, memory_id) ==
    CASE memory_id.shape = "gmail" ->
            IF memory_id.rest = NULLID
            THEN [hit |-> {}, msg |-> "Please provide a valid Gmail thread id."]
            ELSE LET hit == delete_user_memories_by_source_rows(m, user_id, "gmail",
                                                                memory_id.rest, "extraction")
                 IN [hit |-> hit,
                     msg |-> IF hit # {} THEN "That Gmail memory has been forgotten."
                             ELSE "No stored Gmail memory matched that id."]
      [] memory_id.shape = "service" ->
            IF memory_id.rest = NULLID
            THEN [hit |-> {}, msg |-> "Please provide a valid service account memory id."]
            ELSE LET hit == delete_user_memories_by_source_rows(m, user_id, "service_account",
                                                                memory_id.rest, "extraction")
                 IN [hit |-> hit,
                     msg |-> IF hit # {} THEN "That service account memory has been forgotten."
                             ELSE "No stored service account memory matched that id."]
      [] memory_id.shape = "uuid" ->
            LET hit == delete_user_memory_rows(m, memory_id.row, user_id)
            IN [hit |-> hit,
                msg |-> IF hit # {} THEN "That memory has been forgotten."
                        ELSE "No stored memory with that id was found, or it was already removed."]
      [] OTHER -> [hit |-> {}, msg |-> MsgOnlyStored]

\* the ids the user hands to the forget tool
ForgetIds(m) ==
    {MemoryId("uuid", i, NULLID) : i \in 1..Min(Len(m), MaxUuid)}
        \cup {MemoryId("gmail", 0, x) : x \in {<<"A">>, NULLID}}
        \cup {MemoryId("service", 0, x) : x \in {<<"acc1", "T">>, NULLID}}
        \cup {MemoryId("other", 0, NULLID)}

NoRunning == \A p \in Procs : ~Running(p)

ForgetMemory ==
    /\ world.agent
    /\ NoRunning
    /\ ntools < MaxTools
    /\ \E id \in ForgetIds(mem) :
        LET out == forget_memory_tool(mem, USER, id)
        IN /\ mem' = SoftDelete(mem, out.hit, now)
           /\ now' = IF out.hit = {} THEN now ELSE now + 1
           /\ tool' = [op |-> "forget", arg |-> id, ret |-> out.msg]
    /\ ntools' = ntools + 1
    /\ UNCHANGED <<world, run, nruns, hist, fusion, profile, chunks, ingestions, indexer, etl, sim, slice>>

\* create_memory_tool: a memory the chat agent saves, with no source id
CreateMemory ==
    /\ world.agent
    /\ NoRunning
    /\ ntools < MaxTools
    /\ \E content \in {"note ", " "}, emb_ok \in Oks :
        IF InsertRaises(content, emb_ok)
        THEN /\ UNCHANGED <<mem, now>>
             /\ tool' = [op |-> "create", arg |-> content, ret |-> "raised"]
        ELSE /\ mem' = insert_user_memory(mem, now, USER, content, "chat", NULLID, NULL, NULLCONF)
             /\ now' = now + 1
             /\ tool' = [op |-> "create", arg |-> content, ret |-> "created"]
    /\ ntools' = ntools + 1
    /\ UNCHANGED <<world, run, nruns, hist, fusion, profile, chunks, ingestions, indexer, etl, sim, slice>>

\* ------------------------------------------------------------ _rrf_merge

\* Python's float is IEEE-754 binary64.  A float x that is 0.0 or has
\* 2^-7 <= x < 1 is held exactly, as the integer x * 2^59 in two limbs,
\* hi * 2^28 + lo; of its bits at most the leading 53 are set.
Limb == 2 ^ 28

Double(hi, lo) == [hi |-> hi, lo |-> lo]

\* the 0.0 of scores.get(key, 0.0)
ZeroDouble == Double(0, 0)

Carry(hi, lo) == Double(hi + lo \div Limb, lo % Limb)

RECURSIVE BitLength(_)
BitLength(n) == IF n = 0 THEN 0 ELSE 1 + BitLength(n \div 2)

\* rounding to 53 significant bits, to nearest, ties to even
Round53(x) ==
    IF x.hi < 2 ^ 25 THEN x
    ELSE LET m == 2 ^ (BitLength(x.hi) - 25)
             low == x.lo % m
             odd == (x.lo \div m) % 2 = 1
             up == 2 * low > m \/ (2 * low = m /\ odd)
         IN Carry(x.hi, x.lo - low + (IF up THEN m ELSE 0))

\* a + b on floats: the exact sum, rounded
FloatAdd(a, b) == Round53(Carry(a.hi + b.hi, a.lo + b.lo))

FloatLess(a, b) == a.hi < b.hi \/ (a.hi = b.hi /\ a.lo < b.lo)

\* 1.0 / d for 32 < d <= 128: the 53-bit quotient of 2^s by d, by long
\* division on three digits of 20 bits, rounded to nearest, ties to even
FloatReciprocal(d) ==
    LET s == IF d <= 64 THEN 58 ELSE 59
        n2 == 2 ^ (s - 40)
        q2 == n2 \div d
        n1 == (n2 % d) * 2 ^ 20
        q1 == n1 \div d
        n0 == (n1 % d) * 2 ^ 20
        q0 == n0 \div d
        rem == n0 % d
        up == 2 * rem > d \/ (2 * rem = d /\ q0 % 2 = 1)
        q == Carry(q2 * 2 ^ 12 + q1 \div 2 ^ 8,
                   (q1 % 2 ^ 8) * 2 ^ 20 + q0 + (IF up THEN 1 ELSE 0))
    IN IF s = 58 THEN Carry(2 * q.hi, 2 * q.lo) ELSE q

\* 1.0 / (constant + rank) for the ranks of the model
Reciprocals ==
    [d \in (RRF_CONSTANT + 1)..(RRF_CONSTANT + MaxRank) |-> FloatReciprocal(d)]

\* schemas.Memory
Memory(id, content, source) == [id |-> id, content |-> content, source |-> source]

RrfKey(item) == <<item.source, item.content>>

\* faulty variant: id_for_key[key] is overwritten at every occurrence
RrfAddLastId(entries, item, rank, constant) ==
    LET key == RrfKey(item)
        score == Reciprocals[constant + rank]
    IN IF \E e \in DOMAIN entries : entries[e].key = key
       THEN [e \in DOMAIN entries |->
                IF entries[e].key = key
                THEN [entries[e] EXCEPT !.score = FloatAdd(@, score), !.id = item.id]
                ELSE entries[e]]
       ELSE Append(entries, [key |-> key, score |-> FloatAdd(ZeroDouble, score),
                             id |-> item.id])

\* one turn of the inner loop.  entries: the items of the dicts scores and
\* id_for_key, in insertion order
RrfAdd(entries, item, rank, constant) ==
    LET key == RrfKey(item)
        score == Reciprocals[constant + rank]
    IN IF \E e \in DOMAIN entries : entries[e].key = key
       THEN [e \in DOMAIN entries |->
                IF entries[e].key = key
                THEN [entries[e] EXCEPT !.score = FloatAdd(@, score)]
                ELSE entries[e]]
       ELSE Append(entries, [key |-> key, score |-> FloatAdd(ZeroDouble, score),
                             id |-> item.id])

RECURSIVE RrfScanGroup(_, _, _, _)
RrfScanGroup(entries, group, rank, constant) ==
    IF rank > Len(group) THEN entries
    ELSE RrfScanGroup(RrfAdd(entries, group[rank], rank, constant), group, rank + 1, constant)

RECURSIVE RrfScan(_, _, _, _)
RrfScan(entries, groups, g, constant) ==
    IF g > Len(groups) THEN entries
    ELSE RrfScan(RrfScanGroup(entries, groups[g], 1, constant), groups, g + 1, constant)

\* sorted(..., reverse=True) is stable: of the entries with the greatest
\* score the one inserted first comes first
RECURSIVE SortedByScore(_)
SortedByScore(entries) ==
    IF entries = <<>> THEN <<>>
    ELSE LET i == CHOOSE i \in DOMAIN entries :
                    /\ \A j \in DOMAIN entries : ~FloatLess(entries[i].score, entries[j].score)
                    /\ \A j \in 1..(i - 1) : FloatLess(entries[j].score, entries[i].score)
         IN <<entries[i]>> \o
            SortedByScore([j \in 1..(Len(entries) - 1) |->
                              IF j < i THEN entries[j] ELSE entries[j + 1]])

_rrf_merge(groups, k, constant) ==
    LET sorted_keys == SortedByScore(RrfScan(<<>>, groups, 1, constant))
    IN [n \in 1..Min(k, Len(sorted_keys)) |->
            Memory(sorted_keys[n].id, sorted_keys[n].key[2], sorted_keys[n].key[1])]

\* the channel results handed to _rrf_merge: up to NUM_CHANNELS non-empty
\* lists of up to MaxRank items each.  The item at rank r of list g carries
\* the id <<g, r>>.
RrfKeys == {<<"gmail", "x">>, <<"gmail", "y">>}

RrfChannels == UNION {[1..n -> RrfKeys] : n \in 1..MaxRank}

RrfItems(keys) ==
    [g \in DOMAIN keys |->
        [r \in DOMAIN keys[g] |-> Memory(<<g, r>>, keys[g][r][2], keys[g][r][1])]]

RrfInputs == {RrfItems(keys) : keys \in UNION {[1..c -> RrfChannels] : c \in 1..NUM_CHANNELS}}

\* run_etl before it reads a slice
IdleSlice ==
    [pc |-> "idle", slice_id |-> "", files |-> <<>>, d |-> 0, s |-> 0, c |-> 0,
     documents |-> <<>>, sections |-> <<>>, chunks |-> <<>>, graph_nodes |-> <<>>]

\* no ingestion handed to sync_similarity_neighbors_for_ingestions
IdleSim ==
    [scores |-> <<>>, embedded |-> {}, stored |-> <<>>, syncs |-> 0,
     last |-> [top_k |-> 0, min_score |-> 0, degree_cap |-> 0, edge_specs |-> <<>>,
               trimmed |-> <<>>]]

\* run_etl before it is called on a slice of one section
IdleEtl ==
    [pc |-> "idle", tokenized |-> <<>>, chunk_size |-> 0, chunk_overlap |-> 0,
      min_chunks |-> 0, load_min_chunks |-> 0, cursor |-> 0, windows |-> <<>>,
     gate |-> "none", embed_requests |-> 0, artifacts |-> <<>>,
     load_gate |-> "none", upserts |-> <<>>]

\* process_pending_chunks before it is called
IdleIndexer ==
    [pc |-> "idle", runs |-> 0, rows |-> <<>>, ingestion_ids |-> <<>>, fails |-> <<>>,
     vectors |-> <<>>, raised |-> FALSE, completed |-> <<>>, synced |-> <<>>,
     processed_total |-> 0]

NoFusion == [groups |-> <<>>, k |-> RRF_K, merged |-> <<>>, done |-> FALSE]

RrfMerge ==
    /\ fusion.groups # <<>>
    /\ ~fusion.done
    /\ fusion' = [fusion EXCEPT !.merged = _rrf_merge(fusion.groups, fusion.k, RRF_CONSTANT),
                                !.done = TRUE]
    /\ UNCHANGED <<mem, now, world, run, nruns, tool, ntools, hist, profile, chunks, ingestions, indexer, etl, sim, slice>>

\* ------------------------------------------------------ the specification

Init ==
    /\ \/ world \in MailWorlds /\ mem \in FreshStores
       \/ world \in ChunkChatWorlds /\ mem \in SmallStores
       \/ world \in CondenseWorlds /\ mem \in AgedStores
       \/ world \in AgentWorlds /\ mem \in SmallStores
    /\ now = Now0
    /\ run = [p \in Procs |-> IdleRun]
    /\ nruns = 0
    /\ tool = [op |-> "none", arg |-> "none", ret |-> "none"]
    /\ ntools = 0
    /\ hist = [after1 |-> <<>>, completed |-> 0, faults |-> 0]
    /\ fusion = NoFusion
    /\ profile = <<>>
    /\ chunks = <<>>
    /\ ingestions = <<>>
    /\ indexer = IdleIndexer
    /\ etl = IdleEtl
    /\ sim = IdleSim
    /\ slice = IdleSlice

Next ==
    \/ \E p \in SeqProcs :
        \/ StartRun(p)
        \/ FetchGmail(p)
        \/ FetchService(p)
        \/ FetchBespoke(p)
        \/ FetchChat(p)
        \/ UpsertLookup(p)
        \/ UpsertWrite(p)
        \/ CleanupStale(p)
        \/ CondenseFetch(p)
        \/ CondenseFind(p)
        \/ CondenseInsert(p)
        \/ CondenseDelete(p)
        \/ Return(p)
    \/ ForgetMemory
    \/ CreateMemory

Spec == Init /\ [][Next]_vars

\* LLM replies that are not a JSON array of strings: text json.loads rejects,
\* a JSON object, an array of a number, an array of an object and a number
MalformedReplies ==
    {[kind |-> "error", data |-> <<>>],
     [kind |-> "other", data |-> <<>>],
     [kind |-> "array", data |-> <<[py |-> "int", str |-> "5"]>>],
     [kind |-> "array", data |-> <<[py |-> "dict", str |-> "{'fact': 'x'}"],
                                   [py |-> "int", str |-> "5"]>>]}

\* nightly runs over aged rows while the condensation LLM answers off format
InitMalformed ==
    /\ world \in {World(<<>>, <<>>, <<>>, c, l, FALSE) :
                    c \in {<<>>, <<[content |-> "1", confidence |-> 90]>>},
                    l \in MalformedReplies}
    /\ mem \in AgedStores
    /\ now = Now0
    /\ run = [p \in Procs |-> IdleRun]
    /\ nruns = 0
    /\ tool = [op |-> "none", arg |-> "none", ret |-> "none"]
    /\ ntools = 0
    /\ hist = [after1 |-> <<>>, completed |-> 0, faults |-> 0]
    /\ fusion = NoFusion
    /\ profile = <<>>
    /\ chunks = <<>>
    /\ ingestions = <<>>
    /\ indexer = IdleIndexer
    /\ etl = IdleEtl
    /\ sim = IdleSim
    /\ slice = IdleSlice

NextSequential ==
    \E p \in SeqProcs :
        \/ StartRun(p)
        \/ FetchGmail(p)
        \/ FetchService(p)
        \/ FetchBespoke(p)
        \/ FetchChat(p)
        \/ UpsertLookup(p)
        \/ UpsertWrite(p)
        \/ CleanupStale(p)
        \/ CondenseFetch(p)
        \/ CondenseFind(p)
        \/ CondenseInsert(p)
        \/ CondenseDelete(p)
        \/ Return(p)

SpecMalformed == InitMalformed /\ [][NextSequential]_vars

\* two executions of run_memory_ingestion_for_user for the same user, their
\* store calls interleaved
InitConcurrent ==
    /\ \/ /\ world \in {World(g, s, <<>>, <<>>, ArrayReply(1), FALSE) :
                            g \in {<<ThreadB>>}, s \in ServiceAnswers}
          /\ mem \in {OtherUsersRows, OtherUsersRows \o <<GmailRowB>>}
       \/ /\ world = World(<<>>, <<>>, <<>>, <<>>, ArrayReply(1), FALSE)
          /\ mem = OtherUsersRows \o [k \in 1..CONDENSE_MIN_ITEMS |-> AgedRow("gmail", k)]
    /\ now = Now0
    /\ run = [p \in Procs |-> IdleRun]
    /\ nruns = 0
    /\ tool = [op |-> "none", arg |-> "none", ret |-> "none"]
    /\ ntools = 0
    /\ hist = [after1 |-> <<>>, completed |-> 0, faults |-> 0]
    /\ fusion = NoFusion
    /\ profile = <<>>
    /\ chunks = <<>>
    /\ ingestions = <<>>
    /\ indexer = IdleIndexer
    /\ etl = IdleEtl
    /\ sim = IdleSim
    /\ slice = IdleSlice

NextConcurrent ==
    \E p \in Procs :
        \/ StartRun(p)
        \/ FetchGmail(p)
        \/ FetchService(p)
        \/ FetchBespoke(p)
        \/ FetchChat(p)
        \/ UpsertLookup(p)
        \/ UpsertWrite(p)
        \/ CleanupStale(p)
        \/ CondenseFetch(p)
        \/ CondenseFind(p)
        \/ CondenseInsert(p)
        \/ CondenseDelete(p)
        \/ Return(p)

SpecConcurrent == InitConcurrent /\ [][NextConcurrent]_vars

\* _rrf_merge on its own: the store is idle, the channel results vary
InitRRF ==
    /\ world = World(<<>>, <<>>, <<>>, <<>>, ArrayReply(0), TRUE)
    /\ mem = OtherUsersRows
    /\ now = Now0
    /\ run = [p \in Procs |-> IdleRun]
    /\ nruns = 0
    /\ tool = [op |-> "none", arg |-> "none", ret |-> "none"]
    /\ ntools = 0
    /\ hist = [after1 |-> <<>>, completed |-> 0, faults |-> 0]
    /\ \E groups \in RrfInputs, k \in {1, RRF_K} :
            fusion = [NoFusion EXCEPT !.groups = groups, !.k = k]
    /\ profile = <<>>
    /\ chunks = <<>>
    /\ ingestions = <<>>
    /\ indexer = IdleIndexer
    /\ etl = IdleEtl
    /\ sim = IdleSim
    /\ slice = IdleSlice

NextRRF == RrfMerge

SpecRRF == InitRRF /\ [][NextRRF]_vars

\* ------------------------------------------------- the retrieval tools
\* Ids, contents and messages are the strings of the program.

\* str.strip(); the white space of the model's strings is the blank and the newline
StrStrip(s) ==
    LET inked == {i \in 1..Len(s) : SubSeq(s, i, i) \notin {" ", "\n"}}
    IN IF inked = {} THEN ""
       ELSE SubSeq(s, CHOOSE i \in inked : \A j \in inked : i <= j,
                      CHOOSE i \in inked : \A j \in inked : i >= j)

\* s.startswith(prefix)
StartsWith(s, prefix) == Len(s) >= Len(prefix) /\ SubSeq(s, 1, Len(prefix)) = prefix

\* s.split(":")
RECURSIVE Split(_)
Split(s) ==
    LET colons == {i \in 1..Len(s) : SubSeq(s, i, i) = ":"}
    IN IF colons = {} THEN <<s>>
       ELSE LET c == CHOOSE i \in colons : \A j \in colons : i <= j
            IN <<SubSeq(s, 1, c - 1)>> \o Split(SubSeq(s, c + 1, Len(s)))

\* int(s): white space around, an optional sign, decimal digits; ok is FALSE
\* where Python raises ValueError
ParseInt(s) ==
    LET RECURSIVE Decimal(_)
        Decimal(d) ==
            IF d = "" THEN 0
            ELSE 10 * Decimal(SubSeq(d, 1, Len(d) - 1))
                    + (CHOOSE n \in 0..9 : ToString(n) = SubSeq(d, Len(d), Len(d)))
        t == StrStrip(s)
        signed == t # "" /\ SubSeq(t, 1, 1) \in {"+", "-"}
        digits == IF signed THEN SubSeq(t, 2, Len(t)) ELSE t
        ok == /\ digits # ""
              /\ \A i \in 1..Len(digits) : \E d \in 0..9 : ToString(d) = SubSeq(digits, i, i)
    IN [ok |-> ok,
        val |-> IF ~ok THEN 0
                ELSE IF signed /\ SubSeq(t, 1, 1) = "-" THEN 0 - Decimal(digits)
                ELSE Decimal(digits)]

\* the text form of the id of row i of user_memories
Uuid(i) == "00000000-0000-0000-0000-00000000000" \o ToString(i)

\* the UUID pattern, matched on the lower-cased id
_is_user_memory_id(memory_id) ==
    LET s == StrStrip(memory_id)
        HexDigits == {"0", "1", "2", "3", "4", "5", "6", "7", "8", "9",
                      "a", "b", "c", "d", "e", "f", "A", "B", "C", "D", "E", "F"}
    IN /\ Len(s) = 36
       /\ \A i \in 1..36 :
            IF i \in {9, 14, 19, 24} THEN SubSeq(s, i, i) = "-"
            ELSE SubSeq(s, i, i) \in HexDigits

_is_profile_memory_id(memory_id) ==
    LET s == StrStrip(memory_id)
    IN /\ StartsWith(s, "profile:")
       /\ ParseInt(Split(s)[2]).ok
       /\ ParseInt(Split(s)[2]).val >= 0

\* faulty variant: no gmail: branch, as the docstring of the tool has it
ForgetDispatchNoGmail(m, memory_id) ==
    LET s == StrStrip(memory_id)
    IN IF _is_profile_memory_id(s)
       THEN MemoryId("profile", ParseInt(Split(s)[2]).val, NULLID)
       ELSE IF StartsWith(s, "service:")
       THEN MemoryId("service", 0, Split(SubSeq(s, Len("service:") + 1, Len(s))))
       ELSE IF \E i \in DOMAIN m : Uuid(i) = s
       THEN MemoryId("uuid", CHOOSE i \in DOMAIN m : Uuid(i) = s, NULLID)
       ELSE MemoryId("other", 0, NULLID)

\* The dispatch of forget_memory_tool on the text of the id: which branch is
\* taken, and with which row, note index or source id.
ForgetDispatch(m, memory_id) ==
    LET s == StrStrip(memory_id)
        \* the source id a text names: "acc1:T" is account and thread <<"acc1", "T">>
        SourceIdOf(rest) == IF StrStrip(rest) = "" THEN NULLID ELSE Split(StrStrip(rest))
    IN IF _is_profile_memory_id(s)
       THEN MemoryId("profile", ParseInt(Split(s)[2]).val, NULLID)
       ELSE IF StartsWith(s, "gmail:")
       THEN MemoryId("gmail", 0, SourceIdOf(SubSeq(s, Len("gmail:") + 1, Len(s))))
       ELSE IF StartsWith(s, "service:")
       THEN MemoryId("service", 0, SourceIdOf(SubSeq(s, Len("service:") + 1, Len(s))))
       ELSE IF ~_is_user_memory_id(s)
       THEN MemoryId("other", 0, NULLID)
       ELSE IF \E i \in DOMAIN m : Uuid(i) = s
       THEN MemoryId("uuid", CHOOSE i \in DOMAIN m : Uuid(i) = s, NULLID)
       ELSE MemoryId("uuid", 0, NULLID)

\* update_profile(user_id, remove_note=text): the notes with that text go
RemoveNote(notes, text) == SelectSeq(notes, LAMBDA n : n # text)

\* The profile branch of forget_memory_tool on note index idx; ok is FALSE
\* when get_profile or update_profile raises.
ForgetProfileNote(notes, idx, ok) ==
    IF ~ok
    THEN [notes |-> notes, msg |-> "Could not remove that profile note. Please try again."]
    ELSE IF idx < 0 \/ idx >= Len(notes)
    THEN [notes |-> notes, msg |-> "No such profile note found, or it was already removed."]
    ELSE IF notes[idx + 1] = ""
    THEN [notes |-> notes, msg |-> "That profile note could not be removed."]
    ELSE [notes |-> RemoveNote(notes, notes[idx + 1]),
          msg |-> "That information has been removed from your profile."]

\* The non-empty channel lists both retrieval tools hand to _rrf_merge:
\* user memories (none without a query embedding; every row holds an
\* embedding, and nearest is the order the vector search puts the rows in),
\* profile notes, bespoke snippets and Gmail threads.
RetrievalGroups(m, notes, user_id, query, answers) ==
    LET live == SelectSeq([i \in DOMAIN m |-> i],
                          LAMBDA i : m[i].user = user_id /\ m[i].deleted_at = NULLT)
        rows == IF answers.nearest = "first" THEN live
                ELSE [n \in DOMAIN live |-> live[Len(live) + 1 - n]]
        user_memories ==
            IF ~answers.embed_ok THEN <<>>
            ELSE [n \in DOMAIN rows |->
                    Memory(Uuid(rows[n]), m[rows[n]].content, m[rows[n]].source_type)]
        q == StrStrip(query)
        \* q in text.lower(); the texts of the model are lower case
        Contains(text, sub) ==
            sub = "" \/ \E i \in 1..Len(text) : \E j \in i..Len(text) : SubSeq(text, i, j) = sub
        noted == SelectSeq([i \in DOMAIN notes |-> i],
                           LAMBDA i : notes[i] # "" /\ Contains(notes[i], q))
        profile_memories ==
            [n \in DOMAIN noted |->
                Memory("profile:" \o ToString(noted[n] - 1), notes[noted[n]], "profile")]
        bespoke_memories ==
            [n \in DOMAIN answers.bespoke |->
                Memory("bespoke:" \o ToString(n - 1),
                       answers.bespoke[n].content, answers.bespoke[n].source)]
        gmail_memories ==
            [n \in DOMAIN answers.gmail |->
                LET entry == answers.gmail[n]
                    subject == IF entry.subject = "" THEN "(no subject)" ELSE entry.subject
                IN Memory("gmail:" \o (IF entry.threadId = "" THEN ToString(n - 1)
                                       ELSE entry.threadId),
                          StrStrip("[thread:" \o entry.threadId \o "] " \o subject
                                        \o "\n" \o entry.snippet),
                          "gmail")]
    IN SelectSeq(<<user_memories, profile_memories, bespoke_memories, gmail_memories>>,
                 LAMBDA g : g # <<>>)

search_memories_tool(groups) ==
    IF groups = <<>> THEN <<>> ELSE _rrf_merge(groups, RRF_K, RRF_CONSTANT)

get_context_with_budget(groups, max_tokens, top_memories) ==
    LET \* the loop: the lines that fit max_chars
        RECURSIVE ContextSections(_, _, _)
        ContextSections(merged, total_chars, max_chars) ==
            IF merged = <<>> THEN <<>>
            ELSE LET m == Head(merged)
                     line == "- [" \o m.source \o "] [id: " \o m.id \o "] " \o m.content
                 IN IF total_chars + Len(line) + 1 > max_chars THEN <<>>
                    ELSE <<line>> \o ContextSections(Tail(merged),
                                                     total_chars + Len(line) + 1, max_chars)
        RECURSIVE Join(_)
        Join(sections) ==
            IF Len(sections) = 1 THEN sections[1]
            ELSE sections[1] \o "\n" \o Join(Tail(sections))
        sections == ContextSections(_rrf_merge(groups, top_memories * 2, RRF_CONSTANT),
                                    0, max_tokens * 4)
    IN IF groups = <<>> THEN "No stored context found for that query."
       ELSE IF sections = <<>> THEN "No stored context found."
       ELSE "Relevant context (id for forget):\n" \o Join(sections)

\* What the collaborators of the retrieval tools answer: whether the query
\* can be embedded, the order of the vector search, the bespoke snippets and
\* the Gmail threads found, and the query the agent passes.
RetrievalWorlds ==
    [agent : {TRUE}, embed_ok : BOOLEAN, nearest : {"first", "last"},
     query : {"", "tea"},
     bespoke : {<<>>, <<[content |-> "x", source |-> "gmail"]>>},
     gmail : {<<>>, <<[threadId |-> "A", subject |-> "", snippet |-> "hi"]>>,
              <<[threadId |-> "", subject |-> "re", snippet |-> ""]>>}]

Profiles == {<<>>, <<"likes tea">>, <<"likes tea", "has a dog">>, <<"", "likes tea">>}

\* ids the agent may pass to the forget tool besides those a search returned
HandIds ==
    {"profile:0:x", "profile:-1", "profile:abc", "profile:", " profile:1 ", "bespoke:0",
     "gmail:", "gmail:A", "service:acc1:T", "forget it", Uuid(2), Uuid(9),
     "0000000G-0000-0000-0000-000000000002"}

SearchMemories ==
    /\ ~fusion.done
    /\ LET groups == RetrievalGroups(mem, profile, USER, world.query, world)
       IN /\ fusion' = [groups |-> groups, k |-> RRF_K,
                        merged |-> search_memories_tool(groups), done |-> TRUE]
          /\ tool' = [op |-> "search", arg |-> world.query,
                      ret |-> search_memories_tool(groups)]
    /\ UNCHANGED <<mem, now, world, run, nruns, ntools, hist, profile, chunks, ingestions, indexer, etl, sim, slice>>

GetContext ==
    /\ tool.op \in {"none", "search"}
    /\ \E max_tokens \in {1, 15, 40}, top_memories \in 1..MaxRank :
        tool' = [op |-> "context", arg |-> max_tokens,
                 ret |-> get_context_with_budget(
                            RetrievalGroups(mem, profile, USER, world.query, world),
                            max_tokens, top_memories)]
    /\ ntools' = ntools + 1
    /\ UNCHANGED <<mem, now, world, run, nruns, hist, fusion, profile, chunks, ingestions, indexer, etl, sim, slice>>

\* forget_memory_tool on the text of an id
ForgetById ==
    /\ tool.op \in {"none", "search"}
    /\ \E memory_id \in {fusion.merged[n].id : n \in DOMAIN fusion.merged} \cup HandIds,
          ok \in BOOLEAN :
        LET target == ForgetDispatch(mem, memory_id)
        IN IF target.shape = "profile"
           THEN LET out == ForgetProfileNote(profile, target.row, ok)
                IN /\ profile' = out.notes
                   /\ tool' = [op |-> "forget", arg |-> memory_id, ret |-> out.msg]
                   /\ UNCHANGED <<mem, now>>
           ELSE LET out == forget_memory_tool(mem, USER, target)
                IN /\ ok
                   /\ mem' = SoftDelete(mem, out.hit, now)
                   /\ now' = IF out.hit = {} THEN now ELSE now + 1
                   /\ tool' = [op |-> "forget", arg |-> memory_id, ret |-> out.msg]
                   /\ UNCHANGED profile
    /\ ntools' = ntools + 1
    /\ UNCHANGED <<world, run, nruns, hist, fusion, chunks, ingestions, indexer, etl, sim, slice>>

InitTools ==
    /\ world \in RetrievalWorlds
    /\ mem \in SmallStores
    /\ profile \in Profiles
    /\ chunks = <<>>
    /\ ingestions = <<>>
    /\ indexer = IdleIndexer
    /\ etl = IdleEtl
    /\ sim = IdleSim
    /\ slice = IdleSlice
    /\ now = Now0
    /\ run = [p \in Procs |-> IdleRun]
    /\ nruns = 0
    /\ tool = [op |-> "none", arg |-> "none", ret |-> "none"]
    /\ ntools = 0
    /\ hist = [after1 |-> <<>>, completed |-> 0, faults |-> 0]
    /\ fusion = NoFusion

NextTools == SearchMemories \/ GetContext \/ ForgetById

SpecTools == InitTools /\ [][NextTools]_vars

\* ------------------------------- a chat session editing the profile notes
\* The agent retrieves once and then calls profile_update and the forget
\* tool, up to MaxEdits calls, with the ids of that retrieval.

\* _normalize_notes: the entries that have a text
_normalize_notes(raw_notes) == SelectSeq(raw_notes, LAMBDA n : n # "")

\* profile_update_tool(note=note): the normalised notes with the new note
\* appended are posted as customData; posted is FALSE when the gateway
\* answers with an error status and the tool raises
ProfileUpdateNote ==
    /\ tool.op \in {"search", "update", "forget"}
    /\ ntools < MaxEdits
    /\ \E note \in {"has a cat"}, posted \in BOOLEAN :
        /\ profile' = IF posted THEN Append(_normalize_notes(profile), note) ELSE profile
        /\ tool' = [op |-> "update", arg |-> note,
                    ret |-> IF posted THEN "Profile updated." ELSE "RuntimeError"]
    /\ ntools' = ntools + 1
    /\ UNCHANGED <<mem, now, world, run, nruns, hist, fusion, chunks, ingestions, indexer, etl, sim, slice>>

\* the ids of profile notes the retrieval returned
RetrievedNoteIds ==
    {fusion.merged[n].id : n \in {k \in DOMAIN fusion.merged : fusion.merged[k].source = "profile"}}

\* forget_memory_tool on the id of a profile note the retrieval returned
ForgetNote ==
    /\ tool.op \in {"search", "update", "forget"}
    /\ ntools < MaxEdits
    /\ \E memory_id \in RetrievedNoteIds, ok \in BOOLEAN :
        LET target == ForgetDispatch(mem, memory_id)
            out == ForgetProfileNote(profile, target.row, ok)
        IN /\ target.shape = "profile"
           /\ profile' = out.notes
           /\ tool' = [op |-> "forget", arg |-> memory_id, ret |-> out.msg]
    /\ ntools' = ntools + 1
    /\ UNCHANGED <<mem, now, world, run, nruns, hist, fusion, chunks, ingestions, indexer, etl, sim, slice>>

InitProfile ==
    /\ world \in {w \in RetrievalWorlds : w.bespoke = <<>> /\ w.gmail = <<>>}
    /\ mem \in {OtherUsersRows, OtherUsersRows \o <<GmailRowB>>}
    /\ profile \in Profiles
    /\ chunks = <<>>
    /\ ingestions = <<>>
    /\ indexer = IdleIndexer
    /\ etl = IdleEtl
    /\ sim = IdleSim
    /\ slice = IdleSlice
    /\ now = Now0
    /\ run = [p \in Procs |-> IdleRun]
    /\ nruns = 0
    /\ tool = [op |-> "none", arg |-> "none", ret |-> "none"]
    /\ ntools = 0
    /\ hist = [after1 |-> <<>>, completed |-> 0, faults |-> 0]
    /\ fusion = NoFusion

NextProfile == SearchMemories \/ ProfileUpdateNote \/ ForgetNote

SpecProfile == InitProfile /\ [][NextProfile]_vars

\* --------------------------------------------------- memory_indexer.py

\* the vector the embedding service returns for a text
Vector(text) == "v(" \o text \o ")"

\* The requests _embed_documents_resilient can make for texts lo..hi of a
\* batch: the whole of it, then its halves, down to single texts.
RECURSIVE Requests(_, _)
Requests(lo, hi) ==
    IF hi <= lo THEN {<<lo, hi>>}
    ELSE LET mid == IF (hi - lo + 1) \div 2 >= 1 THEN (hi - lo + 1) \div 2 ELSE 1
         IN {<<lo, hi>>} \cup Requests(lo, lo + mid - 1) \cup Requests(lo + mid, hi)

\* faulty variant: no bisection, the batch fails when its request fails
_embed_documents_no_bisect(texts, offset, fails) ==
    IF fails[<<offset + 1, offset + Len(texts)>>] < MAX_RETRIES
    THEN [raised |-> FALSE, vectors |-> [i \in DOMAIN texts |-> Vector(texts[i])]]
    ELSE [raised |-> TRUE, vectors |-> <<>>]

\* _embed_documents_resilient on the texts that follow the first `offset`
\* texts of the batch; fails[<<lo, hi>>] is the number of consecutive attempts
\* of the request for texts lo..hi that raise.
RECURSIVE _embed_documents_resilient(_, _, _)
_embed_documents_resilient(texts, offset, fails) ==
    IF fails[<<offset + 1, offset + Len(texts)>>] < MAX_RETRIES
    THEN [raised |-> FALSE, vectors |-> [i \in DOMAIN texts |-> Vector(texts[i])]]
    ELSE IF Len(texts) <= 1
    THEN [raised |-> TRUE, vectors |-> <<>>]
    ELSE LET mid == IF Len(texts) \div 2 >= 1 THEN Len(texts) \div 2 ELSE 1
             left == _embed_documents_resilient(SubSeq(texts, 1, mid), offset, fails)
             right == _embed_documents_resilient(SubSeq(texts, mid + 1, Len(texts)),
                                                 offset + mid, fails)
         IN IF left.raised \/ right.raised
            THEN [raised |-> TRUE, vectors |-> <<>>]
            ELSE [raised |-> FALSE, vectors |-> left.vectors \o right.vectors]

\* faulty variant: every ingestion of the batch is completed, whatever remains
update_index_counts_no_remaining(ing, ch, ids, counts, t) ==
    [rows |-> [id \in DOMAIN ing |->
                IF id \notin Range(ids) THEN ing[id]
                ELSE [ing[id] EXCEPT !.indexed_chunks = @ + counts[id],
                                     !.status = "uploaded", !.completed_at = t]],
     completed |-> ids]

\* update_index_counts for the ingestions `ids` of a batch (in the order of
\* their first row), counts[id] rows each: the new memory_ingestions rows and
\* the list of completed ingestions.
update_index_counts(ing, ch, ids, counts, t) ==
    LET remaining(id) == Cardinality({c \in DOMAIN ch : ch[c].ingestion_id = id
                                                         /\ ch[c].embedding = NULL})
    IN [rows |-> [id \in DOMAIN ing |->
                    IF id \notin Range(ids) THEN ing[id]
                    ELSE IF remaining(id) = 0
                    THEN [ing[id] EXCEPT !.indexed_chunks = @ + counts[id],
                                         !.status = "uploaded", !.completed_at = t]
                    ELSE [ing[id] EXCEPT !.indexed_chunks = @ + counts[id],
                                         !.status = IF @ \in {"uploaded", "failed"} THEN @
                                                    ELSE "indexing"]],
        completed |-> SelectSeq(ids, LAMBDA id : remaining(id) = 0)]

\* The stores the indexer starts from: chunks "a", "b", ... none embedded yet,
\* owned by the ingestions the layout names, each ingestion in a status the
\* uploader leaves it in.
IndexLayouts ==
    {<<"i1">>, <<"i1", "i1">>, <<"i1", "i2">>, <<"i1", "i1", "i1", "i1">>,
     <<"i1", "i2", "i1", "i2">>, <<"i2", "i1", "i1", "i1", "i2">>}

IndexStores ==
    {[chunks |-> [c \in DOMAIN layout |->
                    [ingestion_id |-> layout[c], content |-> <<"a", "b", "c", "d", "e">>[c],
                     embedding |-> NULL]],
      ingestions |-> [id \in Range(layout) |->
                        [status |-> status[id], indexed_chunks |-> 0,
                         completed_at |-> NULLT, error |-> NULL]]] :
        layout \in IndexLayouts, status \in [{"i1", "i2"} -> {"uploaded", "chunked"}]}

StartIndexing ==
    /\ indexer.pc = "idle"
    /\ indexer.runs < MaxIndexRuns
    /\ indexer' = [IdleIndexer EXCEPT !.pc = "fetch", !.runs = indexer.runs + 1]
    /\ UNCHANGED <<mem, now, world, run, nruns, tool, ntools, hist, fusion, profile, chunks, ingestions, etl, sim, slice>>

\* fetch_pending_chunks and the ingestion ids of the batch; the run ends when
\* the fetch raises or nothing is pending
FetchPending ==
    /\ indexer.pc = "fetch"
    /\ \E ok \in BOOLEAN :
        LET pending == SelectSeq([c \in DOMAIN chunks |-> c],
                                 LAMBDA c : chunks[c].embedding = NULL)
            rows == SubSeq(pending, 1, Min(BatchSize, Len(pending)))
            first == SelectSeq([n \in DOMAIN rows |-> n],
                               LAMBDA n : \A l \in 1..(n - 1) :
                                   chunks[rows[l]].ingestion_id # chunks[rows[n]].ingestion_id)
        IN indexer' =
            IF ~ok \/ rows = <<>>
            THEN [indexer EXCEPT !.pc = "idle", !.rows = <<>>, !.ingestion_ids = <<>>,
                                 !.fails = <<>>, !.vectors = <<>>, !.completed = <<>>]
            ELSE [indexer EXCEPT !.pc = "mark", !.rows = rows,
                                 !.ingestion_ids =
                                    [n \in DOMAIN first |-> chunks[rows[first[n]]].ingestion_id],
                                 !.fails = <<>>, !.vectors = <<>>, !.completed = <<>>]
    /\ UNCHANGED <<mem, now, world, run, nruns, tool, ntools, hist, fusion, profile, chunks, ingestions, etl, sim, slice>>

MarkIndexing ==
    /\ indexer.pc = "mark"
    /\ ingestions' = [id \in DOMAIN ingestions |->
                        IF id \in Range(indexer.ingestion_ids)
                        THEN [ingestions[id] EXCEPT
                                !.status = IF @ \in {"uploaded", "failed"} THEN @ ELSE "indexing"]
                        ELSE ingestions[id]]
    /\ indexer' = [indexer EXCEPT !.pc = "embed"]
    /\ UNCHANGED <<mem, now, world, run, nruns, tool, ntools, hist, fusion, profile, chunks, etl, sim, slice>>

\* _embed_documents_resilient, then store_embeddings; when either raises,
\* mark_ingestions_failed and the run ends
EmbedStore ==
    /\ indexer.pc = "embed"
    /\ \E fails \in [Requests(1, Len(indexer.rows)) -> {0, MAX_RETRIES - 1, MAX_RETRIES}] :
        LET rows == indexer.rows
            texts == [n \in DOMAIN rows |-> chunks[rows[n]].content]
            out == _embed_documents_resilient(texts, 0, fails)
        IN IF out.raised \/ Len(out.vectors) # Len(rows)
           THEN /\ ingestions' = [id \in DOMAIN ingestions |->
                                    IF id \in Range(indexer.ingestion_ids)
                                    THEN [ingestions[id] EXCEPT !.status = "failed",
                                                                !.error = "Embedding failed",
                                                                !.completed_at = now]
                                    ELSE ingestions[id]]
                /\ indexer' = [indexer EXCEPT !.pc = "idle", !.fails = fails,
                                              !.vectors = out.vectors, !.raised = out.raised]
                /\ UNCHANGED chunks
           ELSE /\ chunks' = [c \in DOMAIN chunks |->
                                IF \E n \in DOMAIN rows : rows[n] = c
                                THEN [chunks[c] EXCEPT !.embedding =
                                        out.vectors[CHOOSE n \in DOMAIN rows : rows[n] = c]]
                                ELSE chunks[c]]
                /\ indexer' = [indexer EXCEPT !.pc = "count", !.fails = fails,
                                              !.vectors = out.vectors, !.raised = FALSE]
                /\ UNCHANGED ingestions
    /\ UNCHANGED <<mem, now, world, run, nruns, tool, ntools, hist, fusion, profile, etl, sim, slice>>

UpdateCounts ==
    /\ indexer.pc = "count"
    /\ LET ids == indexer.ingestion_ids
           counts == [id \in Range(ids) |->
                        Cardinality({n \in DOMAIN indexer.rows :
                                        chunks[indexer.rows[n]].ingestion_id = id})]
           out == update_index_counts(ingestions, chunks, ids, counts, now)
       IN /\ ingestions' = out.rows
          /\ indexer' = [indexer EXCEPT !.pc = "sync", !.completed = out.completed,
                                        !.fails = <<>>]
    /\ UNCHANGED <<mem, now, world, run, nruns, tool, ntools, hist, fusion, profile, chunks, etl, sim, slice>>

\* sync_ingestions_to_graph for the completed ingestions, the index rebuild,
\* and back to the head of the loop
SyncGraph ==
    /\ indexer.pc = "sync"
    /\ indexer' = [indexer EXCEPT !.pc = "fetch",
                                  !.synced = @ \o indexer.completed,
                                  !.processed_total = @ + Len(indexer.rows)]
    /\ UNCHANGED <<mem, now, world, run, nruns, tool, ntools, hist, fusion, profile, chunks, ingestions, etl, sim, slice>>

InitIndexer ==
    /\ world = World(<<>>, <<>>, <<>>, <<>>, ArrayReply(0), FALSE)
    /\ mem = OtherUsersRows
    /\ now = Now0
    /\ run = [p \in Procs |-> IdleRun]
    /\ nruns = 0
    /\ tool = [op |-> "none", arg |-> "none", ret |-> "none"]
    /\ ntools = 0
    /\ hist = [after1 |-> <<>>, completed |-> 0, faults |-> 0]
    /\ fusion = NoFusion
    /\ profile = <<>>
    /\ \E store \in IndexStores : chunks = store.chunks /\ ingestions = store.ingestions
    /\ indexer = IdleIndexer
    /\ etl = IdleEtl
    /\ sim = IdleSim
    /\ slice = IdleSlice

NextIndexer ==
    \/ StartIndexing
    \/ FetchPending
    \/ MarkIndexing
    \/ EmbedStore
    \/ UpdateCounts
    \/ SyncGraph

SpecIndexer == InitIndexer /\ [][NextIndexer]_vars

\* --------------------------------------- jobs/graph_etl.py, graph_loader.py
\* A slice of one document with one section. Sentence n of the section is
\* the text Sentence(n) and counts tokenized[n] tokens; ratios are held in
\* hundredths and are multiples of 0.25, which floats hold exactly.

Sentence(n) == "S" \o ToString(n) \o "."

\* faulty variant: the inner loop of chunk_section_text packs one sentence
\* past the budget
PackEndOneMore(tokenized, cursor, chunk_tokens) ==
    LET RECURSIVE Pack(_, _)
        Pack(end, tokens_used) ==
            IF end < Len(tokenized) /\ tokens_used <= chunk_tokens
            THEN Pack(end + 1, tokens_used + tokenized[end + 1])
            ELSE end
    IN Pack(cursor, 0)

\* the inner loop of chunk_section_text: the index after the last sentence
\* that fits the budget, from the 0-based cursor on
PackEnd(tokenized, cursor, chunk_tokens) ==
    LET RECURSIVE Pack(_, _)
        Pack(end, tokens_used) ==
            IF end < Len(tokenized) /\ tokens_used + tokenized[end + 1] <= chunk_tokens
            THEN Pack(end + 1, tokens_used + tokenized[end + 1])
            ELSE end
    IN Pack(cursor, 0)

\* one turn of the outer loop of chunk_section_text
ChunkWindow ==
    /\ etl.pc = "chunk"
    /\ etl.tokenized # <<>>
    /\ Len(etl.windows) < MaxWindows
    /\ LET tokenized == etl.tokenized
           cursor == etl.cursor
           overlap_tokens ==
                IF (etl.chunk_size * etl.chunk_overlap) \div 100 >= 1
                THEN (etl.chunk_size * etl.chunk_overlap) \div 100 ELSE 1
           packed == PackEnd(tokenized, cursor, etl.chunk_size)
           end == IF packed = cursor THEN cursor + 1 ELSE packed
           RECURSIVE Sum(_, _)
           Sum(lo, hi) == IF hi <= lo THEN 0 ELSE tokenized[hi] + Sum(lo, hi - 1)
           tokens_used == IF packed = cursor THEN tokenized[cursor + 1] ELSE Sum(cursor, end)
           RECURSIVE Join(_, _)
           Join(lo, hi) == IF hi = lo + 1 THEN Sentence(hi)
                           ELSE Join(lo, hi - 1) \o " " \o Sentence(hi)
           RECURSIVE WalkBack(_, _)
           WalkBack(new_cursor, target_tokens) ==
                IF new_cursor > cursor /\ target_tokens > 0
                THEN WalkBack(new_cursor - 1, target_tokens - tokenized[new_cursor])
                ELSE new_cursor
           next == IF WalkBack(end, overlap_tokens) >= 0 THEN WalkBack(end, overlap_tokens)
                   ELSE 0
           windows == Append(etl.windows, [text |-> Join(cursor, end), tokens |-> tokens_used])
       IN etl' = IF end >= Len(tokenized) \/ next = end
                 THEN [etl EXCEPT !.windows = windows, !.pc = "gate"]
                 ELSE [etl EXCEPT !.windows = windows, !.cursor = next]
    /\ UNCHANGED <<mem, now, world, run, nruns, tool, ntools, hist, fusion, profile, chunks, ingestions, indexer, sim, slice>>

\* chunk_section_text on a section without sentences returns no chunk
NoSentences ==
    /\ etl.pc = "chunk"
    /\ etl.tokenized = <<>>
    /\ etl' = [etl EXCEPT !.pc = "gate"]
    /\ UNCHANGED <<mem, now, world, run, nruns, tool, ntools, hist, fusion, profile, chunks, ingestions, indexer, sim, slice>>

\* faulty variant: the ValueError of the gate is swallowed
GateExitSwallowed(raised) == "embed"

\* where run_etl goes after enforce_quality: the exception leaves the function
GateExit(raised) == IF raised THEN "raised" ELSE "embed"

\* compute_slice_metrics and enforce_quality on the chunks of the slice
EnforceQuality ==
    /\ etl.pc = "gate"
    /\ LET chunk_count == Len(etl.windows)
           avg_overlap_ratio == IF chunk_count = 0 THEN 0 ELSE etl.chunk_overlap
           orphan_rate == IF chunk_count = 0 THEN 100 ELSE 0
           raised == \/ chunk_count < etl.min_chunks
                     \/ chunk_count > MAX_CHUNKS_THRESHOLD
                     \/ avg_overlap_ratio < MIN_OVERLAP - 1
                     \/ avg_overlap_ratio > MAX_OVERLAP + 1
                     \/ orphan_rate > MAX_ORPHAN_RATE
       IN etl' = [etl EXCEPT !.gate = IF raised THEN "rejected" ELSE "passed",
                             !.pc = GateExit(raised)]
    /\ UNCHANGED <<mem, now, world, run, nruns, tool, ntools, hist, fusion, profile, chunks, ingestions, indexer, sim, slice>>

\* embed_chunks: one request per batch of 128 chunk texts
EmbedChunks ==
    /\ etl.pc = "embed"
    /\ etl' = [etl EXCEPT !.embed_requests = (Len(etl.windows) + 127) \div 128,
                          !.pc = "write"]
    /\ UNCHANGED <<mem, now, world, run, nruns, tool, ntools, hist, fusion, profile, chunks, ingestions, indexer, sim, slice>>

\* the next output file of run_etl, in the order it writes them
WriteArtifact ==
    /\ etl.pc = "write"
    /\ LET ARTIFACTS == <<"chunks.parquet", "documents.jsonl", "sections.jsonl",
                          "chunks.jsonl", "edges.jsonl", "manifest.json">>
           written == Append(etl.artifacts, ARTIFACTS[Len(etl.artifacts) + 1])
       IN etl' = [etl EXCEPT !.artifacts = written,
                             !.pc = IF written = ARTIFACTS THEN "written" ELSE "write"]
    /\ UNCHANGED <<mem, now, world, run, nruns, tool, ntools, hist, fusion, profile, chunks, ingestions, indexer, sim, slice>>

\* load_slice up to its gates: the thresholds of the manifest, the minimum
\* chunk count overridden when --min-chunks is given (0: not given)
LoadGate ==
    /\ etl.pc = "written"
    /\ LET chunk_count == Len(etl.windows)
           avg_overlap_ratio == IF chunk_count = 0 THEN 0 ELSE etl.chunk_overlap
           min_chunks == IF etl.load_min_chunks # 0 THEN etl.load_min_chunks ELSE etl.min_chunks
           \* an empty frame reports 0.0; otherwise the one section has chunks
           orphan_rate == 0
           max_chunk_tokens == CHOOSE m \in 0..(2 * MaxTokens + 1) :
                                    /\ \A w \in DOMAIN etl.windows : etl.windows[w].tokens <= m
                                    /\ \/ m = 0 /\ etl.windows = <<>>
                                       \/ \E w \in DOMAIN etl.windows : etl.windows[w].tokens = m
           rejected == \/ min_chunks # 0 /\ chunk_count < min_chunks
                       \/ chunk_count > MAX_CHUNKS_THRESHOLD
                       \/ avg_overlap_ratio < MIN_OVERLAP - 1
                       \/ avg_overlap_ratio > MAX_OVERLAP + 1
                       \/ orphan_rate > MAX_ORPHAN_RATE
           oversize == etl.chunk_size # 0 /\ 2 * max_chunk_tokens > 3 * etl.chunk_size
       IN etl' = [etl EXCEPT !.load_gate = IF rejected THEN "rejected"
                                           ELSE IF oversize THEN "oversize" ELSE "passed",
                             !.pc = IF rejected \/ oversize THEN "load_raised" ELSE "upsert"]
    /\ UNCHANGED <<mem, now, world, run, nruns, tool, ntools, hist, fusion, profile, chunks, ingestions, indexer, sim, slice>>

\* the next upsert of load_slice: nodes, edges, embeddings
Upsert ==
    /\ etl.pc = "upsert"
    /\ LET UPSERTS == <<"nodes", "edges", "embeddings">>
           done == Append(etl.upserts, UPSERTS[Len(etl.upserts) + 1])
       IN etl' = [etl EXCEPT !.upserts = done,
                             !.pc = IF done = UPSERTS THEN "loaded" ELSE "upsert"]
    /\ UNCHANGED <<mem, now, world, run, nruns, tool, ntools, hist, fusion, profile, chunks, ingestions, indexer, sim, slice>>

InitEtl ==
    /\ world = World(<<>>, <<>>, <<>>, <<>>, ArrayReply(0), FALSE)
    /\ mem = OtherUsersRows
    /\ now = Now0
    /\ run = [p \in Procs |-> IdleRun]
    /\ nruns = 0
    /\ tool = [op |-> "none", arg |-> "none", ret |-> "none"]
    /\ ntools = 0
    /\ hist = [after1 |-> <<>>, completed |-> 0, faults |-> 0]
    /\ fusion = NoFusion
    /\ profile = <<>>
    /\ chunks = <<>>
    /\ ingestions = <<>>
    /\ indexer = IdleIndexer
    /\ sim = IdleSim
    /\ slice = IdleSlice
    /\ \E tokenized \in UNION {[1..n -> 1..MaxTokens] : n \in 0..MaxSentences},
          chunk_size \in 1..MaxTokens, chunk_overlap \in {0, 25, 50, 75},
          min_chunks \in {1, 2}, load_min_chunks \in {0, 3} :
        etl = [IdleEtl EXCEPT !.pc = "chunk", !.tokenized = tokenized,
                              !.chunk_size = chunk_size, !.chunk_overlap = chunk_overlap,
                              !.min_chunks = min_chunks, !.load_min_chunks = load_min_chunks]

NextEtl ==
    \/ NoSentences
    \/ ChunkWindow
    \/ EnforceQuality
    \/ EmbedChunks
    \/ WriteArtifact
    \/ LoadGate
    \/ Upsert

SpecEtl == InitEtl /\ [][NextEtl]_vars

\* ------------------------------------------- services/similarity_graph.py
\* One ingestion with chunks "a", "b", "c". sim.scores[{x, y}] is the cosine
\* score of the embeddings of x and y in hundredths; the scores of the three
\* pairs differ, and every choice of three of SimScores is the Gram matrix of
\* three unit vectors. sim.stored[x] is graph_metadata.similarNeighbors of
\* chunk x, <<>> when the key is absent.

SimChunks == {"a", "b", "c"}

SimScores == {40, 60, 70, 80}

\* the chunk node id when graph_metadata names none (lines 39 and 101)
ChunkNodeId(chunk_id) == "CHUNK::" \o chunk_id

\* sorted(items, key=score, reverse=True): stable, highest score first
ByScoreDescending(items) ==
    LET RECURSIVE Sort(_)
        Sort(rest) ==
            IF rest = <<>> THEN <<>>
            ELSE LET top == CHOOSE n \in DOMAIN rest :
                                /\ \A l \in DOMAIN rest : rest[l].score <= rest[n].score
                                /\ \A l \in 1..(n - 1) : rest[l].score < rest[n].score
                 IN <<rest[top]>> \o Sort(SubSeq(rest, 1, top - 1) \o SubSeq(rest, top + 1, Len(rest)))
    IN Sort(items)

\* query_neighbors: the other embedded chunks of the ingestion, nearest
\* first, at most limit of them
query_neighbors(scores, embedded, chunk_id, limit) ==
    LET RECURSIVE Rows(_)
        Rows(ids) ==
            IF ids = {} THEN <<>>
            ELSE LET id == CHOOSE x \in ids : TRUE
                 IN <<[id |-> id, score |-> scores[{chunk_id, id}],
                       chunk_node_id |-> ChunkNodeId(id)]>> \o Rows(ids \ {id})
        ordered == ByScoreDescending(Rows(embedded \ {chunk_id}))
    IN SubSeq(ordered, 1, Min(limit, Len(ordered)))

\* lines 138-162: the pairs the sync accepts, in the order it accepts them;
\* chunk_nodes is the order in which fetch_chunk_nodes returned the chunks
AcceptPairs(scores, embedded, chunk_nodes, top_k, min_score, degree_cap) ==
    LET RECURSIVE Scan(_, _, _, _, _)
        Scan(c, neighbors, seen_pairs, degree_count, edge_specs) ==
            IF c > Len(chunk_nodes) THEN edge_specs
            ELSE IF neighbors = <<>>
            THEN IF c = Len(chunk_nodes) THEN edge_specs
                 ELSE Scan(c + 1, query_neighbors(scores, embedded, chunk_nodes[c + 1], top_k * 2),
                           seen_pairs, degree_count, edge_specs)
            ELSE LET node_id == chunk_nodes[c]
                     n == Head(neighbors)
                     pair == {node_id, n.id}
                     source_node == ChunkNodeId(node_id)
                 IN IF \/ n.score < min_score
                       \/ pair \in seen_pairs
                       \/ degree_count[source_node] >= degree_cap
                       \/ degree_count[n.chunk_node_id] >= degree_cap
                    THEN Scan(c, Tail(neighbors), seen_pairs, degree_count, edge_specs)
                    ELSE Scan(c, Tail(neighbors), seen_pairs \cup {pair},
                              [degree_count EXCEPT ![source_node] = @ + 1,
                                                   ![n.chunk_node_id] = @ + 1],
                              Append(edge_specs, <<node_id, n.id, n.score>>))
    IN Scan(1, query_neighbors(scores, embedded, chunk_nodes[1], top_k * 2), {},
            [node \in {ChunkNodeId(x) : x \in SimChunks} |-> 0], <<>>)

\* lines 165-175: the neighbour list of every chunk with an accepted pair,
\* best score first, cut to top_k
TrimmedNeighbors(edge_specs, top_k) ==
    LET RECURSIVE Adjacency(_, _)
        Adjacency(chunk_id, e) ==
            IF e > Len(edge_specs) THEN <<>>
            ELSE LET source == edge_specs[e][1]
                     target == edge_specs[e][2]
                     score == edge_specs[e][3]
                 IN (IF chunk_id = source
                     THEN <<[chunkNodeId |-> ChunkNodeId(target), score |-> score]>>
                     ELSE IF chunk_id = target
                     THEN <<[chunkNodeId |-> ChunkNodeId(source), score |-> score]>>
                     ELSE <<>>) \o Adjacency(chunk_id, e + 1)
        keys == {edge_specs[e][1] : e \in DOMAIN edge_specs}
                    \cup {edge_specs[e][2] : e \in DOMAIN edge_specs}
    IN [chunk_id \in keys |->
            LET sorted_neighbors == ByScoreDescending(Adjacency(chunk_id, 1))
            IN SubSeq(sorted_neighbors, 1, Min(top_k, Len(sorted_neighbors)))]

\* update_similarity_metadata: similarNeighbors is set on the chunks of the
\* map and on no other
update_similarity_metadata(stored, neighbor_map) ==
    [chunk_id \in DOMAIN stored |->
        IF chunk_id \in DOMAIN neighbor_map THEN neighbor_map[chunk_id] ELSE stored[chunk_id]]

\* the orders in which a SELECT without ORDER BY may return the chunks
FetchOrders(ids) ==
    {order \in [1..Cardinality(ids) -> ids] : \A x \in ids : \E n \in DOMAIN order : order[n] = x}

\* sync_similarity_neighbors_for_ingestions on the ingestion
SyncSimilarity ==
    /\ sim.syncs < MaxSyncs
    /\ sim.scores # <<>>
    /\ \E chunk_nodes \in FetchOrders(sim.embedded), top_k \in 1..MaxTopK,
          min_score \in {50, 65}, degree_cap \in 1..MaxDegreeCap :
        LET edge_specs == IF Len(chunk_nodes) < 2 THEN <<>>
                          ELSE AcceptPairs(sim.scores, sim.embedded, chunk_nodes,
                                           top_k, min_score, degree_cap)
            trimmed == IF edge_specs = <<>> THEN <<>> ELSE TrimmedNeighbors(edge_specs, top_k)
        IN sim' = [sim EXCEPT
                    !.stored = IF edge_specs = <<>> THEN @
                               ELSE update_similarity_metadata(@, trimmed),
                    !.syncs = @ + 1,
                    !.last = [top_k |-> top_k, min_score |-> min_score,
                              degree_cap |-> degree_cap, edge_specs |-> edge_specs,
                              trimmed |-> trimmed]]
    /\ UNCHANGED <<mem, now, world, run, nruns, tool, ntools, hist, fusion, profile, chunks, ingestions, indexer, etl, slice>>

InitSim ==
    /\ world = World(<<>>, <<>>, <<>>, <<>>, ArrayReply(0), FALSE)
    /\ mem = OtherUsersRows
    /\ now = Now0
    /\ run = [p \in Procs |-> IdleRun]
    /\ nruns = 0
    /\ tool = [op |-> "none", arg |-> "none", ret |-> "none"]
    /\ ntools = 0
    /\ hist = [after1 |-> <<>>, completed |-> 0, faults |-> 0]
    /\ fusion = NoFusion
    /\ profile = <<>>
    /\ chunks = <<>>
    /\ ingestions = <<>>
    /\ indexer = IdleIndexer
    /\ etl = IdleEtl
    /\ slice = IdleSlice
    /\ \E scores \in [{pair \in SUBSET SimChunks : Cardinality(pair) = 2} -> SimScores],
          embedded \in SUBSET SimChunks :
        /\ \A p, q \in DOMAIN scores : p # q => scores[p] # scores[q]
        /\ sim = [IdleSim EXCEPT !.scores = scores, !.embedded = embedded,
                                 !.stored = [x \in SimChunks |-> <<>>]]

NextSim == SyncSimilarity

SpecSim == InitSim /\ [][NextSim]_vars

\* ------------------------- models/graph.py, run_etl and load_slice: node ids
\* A slice of files; file d has the stem files[d].stem and the sections
\* files[d].sections, each with a path and the token counts of its chunks.
\* slice.graph_nodes maps the ids of graph_nodes to the row stored under it.

\* the ASCII code of a character of the section paths
Ord(ch) ==
    LET ASCII == <<<<"/", 47>>, <<"A", 65>>, <<"B", 66>>, <<"O", 79>>, <<"R", 82>>, <<"T", 84>>>>
    IN ASCII[CHOOSE k \in DOMAIN ASCII : ASCII[k][1] = ch][2]

\* _encode_graph_part: URL-safe base64 of the text, the padding stripped
_encode_graph_part(value) ==
    LET ALPHABET == "ABCDEFGHIJKLMNOPQRSTUVWXYZabcdefghijklmnopqrstuvwxyz0123456789-_"
        Digit(n) == SubSeq(ALPHABET, n + 1, n + 1)
        Byte(i) == IF i <= Len(value) THEN Ord(SubSeq(value, i, i)) ELSE 0
        RECURSIVE Quads(_)
        Quads(i) ==
            IF i > Len(value) THEN ""
            ELSE LET n == Byte(i) * 65536 + Byte(i + 1) * 256 + Byte(i + 2)
                     quad == Digit(n \div 262144) \o Digit((n \div 4096) % 64)
                                \o Digit((n \div 64) % 64) \o Digit(n % 64)
                     given == Len(value) - i + 1
                 IN (IF given >= 3 THEN quad ELSE SubSeq(quad, 1, given + 1)) \o Quads(i + 3)
    IN Quads(1)

\* make_node_id(node_type, *parts)
make_node_id(node_type, parts) ==
    LET RECURSIVE Extra(_)
        Extra(k) == IF k > Len(parts) THEN ""
                    ELSE (IF parts[k] # "" THEN "::" \o _encode_graph_part(parts[k]) ELSE "")
                            \o Extra(k + 1)
    IN CASE node_type = "DOCUMENT" ->
                "DOCUMENT::" \o (IF parts # <<>> THEN parts[1] ELSE "")
         [] node_type = "SECTION" ->
                "SECTION::" \o (IF parts # <<>> THEN parts[1] ELSE "") \o "::"
                    \o _encode_graph_part(IF Len(parts) > 1 THEN parts[2] ELSE "")
         [] node_type = "CHUNK" ->
                "CHUNK::" \o (IF parts # <<>> THEN parts[1] ELSE "")
         [] OTHER -> node_type \o Extra(1)

\* the slices run_etl is given: one or two files, every file with the same
\* headings, every section cut into the same chunks
SliceLayouts ==
    {[d \in DOMAIN stems |->
        [stem |-> stems[d],
         sections |-> [s \in DOMAIN paths |-> [path |-> paths[s], order |-> s - 1,
                                               chunks |-> tokens]]]] :
        stems \in {SubSeq(<<"a", "b", "c">>, 1, n) : n \in 1..MaxDocuments},
        paths \in {<<"ROOT">>, <<"A", "A/B">>, <<"A", "A">>},
        tokens \in {<<2>>, <<3, 2>>, <<2, 2>>}}

\* load_documents and the start of the loop over the files
ReadSlice ==
    /\ slice.pc = "idle"
    /\ \E files \in SliceLayouts :
        slice' = [IdleSlice EXCEPT !.pc = "document", !.slice_id = "s1", !.files = files, !.d = 1]
    /\ UNCHANGED <<mem, now, world, run, nruns, tool, ntools, hist, fusion, profile, chunks, ingestions, indexer, etl, sim>>

\* the document record of the next file
MakeDocument ==
    /\ slice.pc = "document"
    /\ LET file == slice.files[slice.d]
           document_id == make_node_id("DOCUMENT", <<slice.slice_id, file.stem>>)
       IN slice' = [slice EXCEPT
                !.documents = Append(@, [node_id |-> document_id, stem |-> file.stem]),
                !.pc = "section", !.s = 1]
    /\ UNCHANGED <<mem, now, world, run, nruns, tool, ntools, hist, fusion, profile, chunks, ingestions, indexer, etl, sim>>

\* the section record of the next section of the file, or on to the next
\* file, or to the loader when the files are done
MakeSection ==
    /\ slice.pc = "section"
    /\ LET file == slice.files[slice.d]
           document_id == slice.documents[Len(slice.documents)].node_id
       IN IF slice.s > Len(file.sections)
          THEN slice' = IF slice.d < Len(slice.files)
                        THEN [slice EXCEPT !.pc = "document", !.d = @ + 1]
                        ELSE [slice EXCEPT !.pc = "load"]
          ELSE LET section == file.sections[slice.s]
                   section_id == make_node_id("SECTION",
                                    <<document_id, section.path, ToString(section.order)>>)
               IN slice' = [slice EXCEPT
                        !.sections = Append(@, [node_id |-> section_id, document |-> slice.d,
                                                section_order |-> section.order]),
                        !.pc = "chunk", !.c = 1]
    /\ UNCHANGED <<mem, now, world, run, nruns, tool, ntools, hist, fusion, profile, chunks, ingestions, indexer, etl, sim>>

\* the chunk record of the next chunk of the section, or on to the next
\* section
MakeChunk ==
    /\ slice.pc = "chunk"
    /\ LET section == slice.files[slice.d].sections[slice.s]
           section_id == slice.sections[Len(slice.sections)].node_id
       IN IF slice.c > Len(section.chunks)
          THEN slice' = [slice EXCEPT !.pc = "section", !.s = @ + 1]
          ELSE LET idx == slice.c - 1
                   token_count == section.chunks[slice.c]
                   chunk_id == make_node_id("CHUNK",
                                    <<section_id, ToString(idx), ToString(token_count)>>)
               IN slice' = [slice EXCEPT
                        !.chunks = Append(@, [node_id |-> chunk_id, document |-> slice.d,
                                              section_order |-> section.order,
                                              chunk_index |-> idx]),
                        !.c = @ + 1]
    /\ UNCHANGED <<mem, now, world, run, nruns, tool, ntools, hist, fusion, profile, chunks, ingestions, indexer, etl, sim>>

\* load_slice: build_graph_nodes and upsert_graph_nodes, ON CONFLICT (id) DO
\* UPDATE, so that the last record of an id is the row
UpsertNodes ==
    /\ slice.pc = "load"
    /\ LET nodes ==
            [k \in DOMAIN slice.documents |->
                [id |-> slice.documents[k].node_id, node_type |-> "DOCUMENT", record |-> k]]
            \o [k \in DOMAIN slice.sections |->
                [id |-> slice.sections[k].node_id, node_type |-> "SECTION", record |-> k]]
            \o [k \in DOMAIN slice.chunks |->
                [id |-> slice.chunks[k].node_id, node_type |-> "CHUNK", record |-> k]]
           last(id) == CHOOSE k \in DOMAIN nodes :
                            nodes[k].id = id /\ \A l \in DOMAIN nodes : nodes[l].id = id => l <= k
       IN slice' = [slice EXCEPT
                !.graph_nodes = [id \in {nodes[k].id : k \in DOMAIN nodes} |-> nodes[last(id)]],
                !.pc = "loaded"]
    /\ UNCHANGED <<mem, now, world, run, nruns, tool, ntools, hist, fusion, profile, chunks, ingestions, indexer, etl, sim>>

InitSlice ==
    /\ world = World(<<>>, <<>>, <<>>, <<>>, ArrayReply(0), FALSE)
    /\ mem = OtherUsersRows
    /\ now = Now0
    /\ run = [p \in Procs |-> IdleRun]
    /\ nruns = 0
    /\ tool = [op |-> "none", arg |-> "none", ret |-> "none"]
    /\ ntools = 0
    /\ hist = [after1 |-> <<>>, completed |-> 0, faults |-> 0]
    /\ fusion = NoFusion
    /\ profile = <<>>
    /\ chunks = <<>>
    /\ ingestions = <<>>
    /\ indexer = IdleIndexer
    /\ etl = IdleEtl
    /\ sim = IdleSim
    /\ slice = IdleSlice

NextSlice ==
    \/ ReadSlice
    \/ MakeDocument
    \/ MakeSection
    \/ MakeChunk
    \/ UpsertNodes

SpecSlice == InitSlice /\ [][NextSlice]_vars

\* ------------------------------------------------------------ properties

\* the ids of a list of candidates
CandidateIds(cands) == {cands[k].source_id : k \in DOMAIN cands}

\* row i is soft-deleted by the step
SoftDeleted(i) == mem[i].deleted_at = NULLT /\ mem'[i].deleted_at # NULLT

\* worker p performs the stale cleanup of source type st in the step
CleanupStep(p, st) ==
    /\ run[p].pc = (IF st = "gmail" THEN "cleanup_gmail" ELSE "cleanup_service")
    /\ run'[p].pc # run[p].pc

\* the "extraction" rows of the user and source type st that carry a source id
StaleScope(st) ==
    {i \in DOMAIN mem : /\ mem[i].user = USER
                        /\ mem[i].source_type = st
                        /\ mem[i].scope = "extraction"
                        /\ mem[i].source_id # NULLID}

\* what the cleanup step of a successful fetch is to do with the rows of st
CleanupPost(st, cands) ==
    \A i \in StaleScope(st) :
        IF mem[i].source_id \in CandidateIds(cands)
        THEN mem[i].deleted_at = NULLT => mem'[i].deleted_at = NULLT
        ELSE mem'[i].deleted_at # NULLT

\* C1: when the Gmail (resp. service-account) fetch succeeded, the stale
\* cleanup leaves every extraction memory of that source type whose source id
\* is absent from the run's candidates soft-deleted and every one whose source
\* id is among them live, for every candidate set, the empty one included.
C1_StaleCleanupEveryCandidateSet ==
    [][\A p \in Procs :
        /\ (CleanupStep(p, "gmail") /\ run[p].gmail_ok)
                => CleanupPost("gmail", run[p].gmail_candidates)
        /\ (CleanupStep(p, "service_account") /\ run[p].service_ok)
                => CleanupPost("service_account", run[p].service_candidates)]_vars

\* worker p completes a call of upsert_user_memory_from_source in the step
UpsertStep(p) ==
    /\ run[p].pc \in {"upsert_lookup", "upsert_write"}
    /\ run'[p].inserted + run'[p].updated + run'[p].skipped
            = run[p].inserted + run[p].updated + run[p].skipped + 1

\* the live rows that carry the key of candidate c
KeyRows(c) ==
    {i \in DOMAIN mem : /\ mem[i].user = USER
                        /\ mem[i].source_type = c.source_type
                        /\ mem[i].source_id = c.source_id
                        /\ mem[i].scope = c.scope
                        /\ mem[i].deleted_at = NULLT}

OutcomeSkipped(c) ==
    /\ \E i \in KeyRows(c) : mem[i].content = c.content
    /\ mem' = mem

OutcomeUpdated(c) ==
    /\ Len(mem') = Len(mem)
    /\ \E i \in KeyRows(c) :
        /\ mem[i].content # c.content
        /\ mem'[i] = [mem[i] EXCEPT !.content = c.content, !.confidence = c.confidence,
                                    !.embedding = Embedding(c.content)]
        /\ \A j \in DOMAIN mem : j # i => mem'[j] = mem[j]

OutcomeInserted(c) ==
    /\ KeyRows(c) = {}
    /\ Len(mem') = Len(mem) + 1
    /\ \A j \in DOMAIN mem : mem'[j] = mem[j]
    /\ LET row == mem'[Len(mem')]
       IN /\ row.user = USER /\ row.content = c.content
          /\ row.source_type = c.source_type /\ row.source_id = c.source_id
          /\ row.scope = c.scope /\ row.confidence = c.confidence
          /\ row.embedding = Embedding(c.content)
          /\ row.deleted_at = NULLT

\* the call raised: no embedding could be computed, no row changed, and
\* _upsert_candidates counts the candidate as skipped
OutcomeRaised(p) ==
    /\ mem' = mem
    /\ hist'.faults = hist.faults + 1
    /\ run'[p].skipped = run[p].skipped + 1

\* C2 (as amended): upsert_user_memory_from_source has exactly one of four
\* outcomes: skipped, no row changed, when a live row with the key holds the
\* same content; updated, that row's content, confidence and embedding
\* replaced, when it holds different content; inserted, exactly one new live
\* row, when no live row has the key; or, when the embedding of the new
\* content cannot be computed, it raises and no row changes.
C2_UpsertFourOutcomes ==
    [][\A p \in Procs : UpsertStep(p) =>
        LET c == Candidate(run[p])
            status == run'[p].status
        IN /\ status \in {"skipped", "updated", "inserted", "raised"}
           /\ status = "skipped" => OutcomeSkipped(c)
           /\ status = "updated" => OutcomeUpdated(c)
           /\ status = "inserted" => OutcomeInserted(c)
           /\ status = "raised" => OutcomeRaised(p)]_vars

\* C2 as stated: the outcome is one of skipped, updated and inserted.
C2_UpsertThreeOutcomes ==
    [][\A p \in Procs : UpsertStep(p) =>
        LET c == Candidate(run[p])
        IN \/ KeyRows(c) # {} /\ OutcomeSkipped(c)
           \/ KeyRows(c) # {} /\ OutcomeUpdated(c)
           \/ KeyRows(c) = {} /\ OutcomeInserted(c)]_vars

\* an upsert raised and was counted as skipped
C2_Witness == \E p \in Procs : run[p].status = "raised" /\ run[p].skipped > 0

\* worker p is inside a call of _condense_memories_for_source
InCondense(p) ==
    run[p].pc \in {"condense_fetch", "condense_find", "condense_insert", "condense_delete"}

\* the rows the current condensation call of p fetched
BatchIds(p) == {run[p].items[k].id : k \in DOMAIN run[p].items}

\* the live "condensed" rows the current call of p has inserted so far
CondensedSince(p) ==
    {j \in (Len(run[p].cmem) + 1)..Len(mem) :
        /\ mem[j].user = USER
        /\ mem[j].scope = "condensed"
        /\ mem[j].source_type = run[p].csource
        /\ mem[j].deleted_at = NULLT}

\* C3: _condense_memories_for_source soft-deletes rows only once the same
\* call has inserted at least one condensed memory, and then only rows of
\* the batch it fetched; when every insert failed or every summary was
\* already stored it soft-deletes nothing.
C3_CondenseDeletesAfterInsert ==
    [][\A p \in Procs : (InCondense(p) /\ \E i \in DOMAIN mem : SoftDeleted(i)) =>
        /\ run[p].cinserted >= 1
        /\ Cardinality(CondensedSince(p)) = run[p].cinserted
        /\ \A i \in DOMAIN mem : SoftDeleted(i) => i \in BatchIds(p)]_vars

\* a condensation call has soft-deleted its batch
C3_Witness ==
    \E p \in Procs : run[p].condensed.deleted > 0 \/ run[p].condensed_chat.deleted > 0

\* worker p returns from _condense_memories_for_source in the step
CondenseReturns(p) ==
    /\ InCondense(p)
    /\ run'[p].pc = "return" \/ run'[p].csource # run[p].csource

Older(m, j, i) ==
    \/ m[j].created_at < m[i].created_at
    \/ (m[j].created_at = m[i].created_at /\ j < i)

\* the oldest min(n, 30) of the qualifying rows q of store m
OldestBatch(m, q) ==
    {i \in q : Cardinality({j \in q : Older(m, j, i)}) < CONDENSE_BATCH_SIZE}

\* the LLM answered m >= 1 distinct non-empty summaries, none stored in m0
FreshSummaries(reply, m0) ==
    /\ reply.kind = "array"
    /\ Len(reply.data) >= 1
    /\ \A k \in DOMAIN reply.data :
        /\ reply.data[k].py = "str"
        /\ reply.data[k].str # ""
        /\ Strip(reply.data[k].str) = reply.data[k].str
        /\ \A l \in DOMAIN reply.data : l # k => reply.data[l].str # reply.data[k].str
        /\ \A i \in DOMAIN m0 : m0[i].content # reply.data[k].str

EmptyList(reply) == reply.kind = "array" /\ reply.data = <<>>

\* since store m0: `created` new live condensed memories of source type st,
\* and the rows of `gone`, no others, soft-deleted
CondenseEffect(m0, st, created, gone) ==
    /\ Len(mem') = Len(m0) + created
    /\ \A j \in (Len(m0) + 1)..Len(mem') :
        /\ mem'[j].user = USER /\ mem'[j].scope = "condensed"
        /\ mem'[j].source_type = st /\ mem'[j].deleted_at = NULLT
    /\ \A i \in DOMAIN m0 :
        IF i \in gone
        THEN mem'[i].deleted_at # NULLT /\ mem'[i] = [m0[i] EXCEPT !.deleted_at = mem'[i].deleted_at]
        ELSE mem'[i] = m0[i]

\* C4 (as amended): with n qualifying memories, n >= 8, and m >= 1 distinct
\* non-empty summaries none of which is stored, condensation leaves
\* min(m, 5) new condensed memories less those whose insert raised for want
\* of an embedding, and soft-deletes exactly the batch (the oldest
\* min(n, 30)) if at least one insert succeeded and nothing otherwise; with
\* n < 8 or an empty list nothing is created and nothing soft-deleted.
C4_CondenseCounts ==
    [][\A p \in Procs : CondenseReturns(p) =>
        LET r == run'[p]
            st == run[p].csource
            reply == world.llm[st]
            n == Cardinality(r.cq)
            created == Min(Len(reply.data), CONDENSE_MAX_SUMMARIES) - r.cfail
        IN /\ (n >= CONDENSE_MIN_ITEMS /\ FreshSummaries(reply, r.cmem)) =>
                CondenseEffect(r.cmem, st, created,
                               IF created >= 1 THEN OldestBatch(r.cmem, r.cq) ELSE {})
           /\ (n < CONDENSE_MIN_ITEMS \/ EmptyList(reply)) =>
                CondenseEffect(r.cmem, st, 0, {})]_vars

\* C4 as stated: exactly min(m, 5) new condensed memories, the batch
\* soft-deleted.
C4_CondenseCountsAsStated ==
    [][\A p \in Procs : CondenseReturns(p) =>
        LET r == run'[p]
            st == run[p].csource
            reply == world.llm[st]
            n == Cardinality(r.cq)
        IN /\ (n >= CONDENSE_MIN_ITEMS /\ FreshSummaries(reply, r.cmem)) =>
                CondenseEffect(r.cmem, st, Min(Len(reply.data), CONDENSE_MAX_SUMMARIES),
                               OldestBatch(r.cmem, r.cq))
           /\ (n < CONDENSE_MIN_ITEMS \/ EmptyList(reply)) =>
                CondenseEffect(r.cmem, st, 0, {})]_vars

\* a call with more than 30 qualifying rows and more than 5 summaries has
\* returned after an insert raised
C4_Witness ==
    \E p \in Procs :
        /\ run[p].pc = "return"
        /\ Cardinality(run[p].cq) > CONDENSE_BATCH_SIZE
        /\ Len(world.llm.chat.data) > CONDENSE_MAX_SUMMARIES
        /\ run[p].cfail = 1
        /\ run[p].condensed_chat.condensed = CONDENSE_MAX_SUMMARIES - 1
        /\ run[p].condensed_chat.deleted = CONDENSE_BATCH_SIZE

\* C5: a second run over unchanged sources and LLM outputs changes nothing:
\* the store after two runs equals the store after one.
C5_SecondRunChangesNothing ==
    (hist.completed = 2 /\ hist.faults = 0 /\ ntools = 0) => mem = hist.after1

\* C6: no step removes a row, and a deleted_at once set is neither cleared
\* nor set again.
C6_SoftDeleteIsPermanent ==
    [][/\ Len(mem') >= Len(mem)
       /\ \A i \in DOMAIN mem :
            /\ mem'[i].user = mem[i].user
            /\ mem'[i].created_at = mem[i].created_at
            /\ mem[i].deleted_at # NULLT => mem'[i].deleted_at = mem[i].deleted_at]_vars

\* the forget tool was handed the id of a row that was already soft-deleted
C6_Witness ==
    /\ tool.op = "forget"
    /\ tool.arg.shape = "uuid"
    /\ tool.arg.row \in DOMAIN mem
    /\ mem[tool.arg.row].user = USER
    /\ mem[tool.arg.row].deleted_at = Now0 - 4

\* C7: a fetch failure in any one source never aborts the run.
C7_FetchFailureNeverAborts == \A p \in Procs : run[p].pc # "aborted"

\* C8: when the fetch of a source type raised, the stale cleanup of the run
\* soft-deletes no memory of that source type, whatever the other source's
\* flag and candidates.
C8_FailedFetchSkipsCleanup ==
    [][\A p \in Procs :
        /\ (CleanupStep(p, "gmail") /\ ~run[p].gmail_ok) =>
                \A i \in DOMAIN mem : mem[i].source_type = "gmail" => mem'[i] = mem[i]
        /\ (CleanupStep(p, "service_account") /\ ~run[p].service_ok) =>
                \A i \in DOMAIN mem : mem[i].source_type = "service_account" => mem'[i] = mem[i]]_vars

\* the Gmail cleanup was skipped after a failed fetch, with a live Gmail
\* memory in the store and service-account candidates at hand
C8_Witness ==
    \E p \in Procs :
        /\ run[p].pc = "cleanup_service"
        /\ ~run[p].gmail_ok
        /\ run[p].service_ok
        /\ run[p].service_candidates # <<>>
        /\ StaleScope("gmail") # {}
        /\ \A i \in StaleScope("gmail") : mem[i].deleted_at = NULLT

\* C9: the run inserts or updates no memory from a candidate whose
\* confidence is below the threshold, whatever its source.
C9_NoWriteBelowThreshold ==
    [][\A p \in Procs :
        (UpsertStep(p) /\ run'[p].status \in {"inserted", "updated"}) =>
            ~(Candidate(run[p]).confidence < CONFIDENCE_THRESHOLD)]_vars

\* the keys of the channel lists
KeysOf(groups) == {RrfKey(groups[g][r]) : <<g, r>> \in
                        {x \in (1..NUM_CHANNELS) \X (1..MaxRank) :
                            x[1] \in DOMAIN groups /\ x[2] \in DOMAIN groups[x[1]]}}

\* the positions <<list, rank>> at which key occurs
Occurrences(groups, key) ==
    {x \in (1..NUM_CHANNELS) \X (1..MaxRank) :
        /\ x[1] \in DOMAIN groups
        /\ x[2] \in DOMAIN groups[x[1]]
        /\ RrfKey(groups[x[1]][x[2]]) = key}

RECURSIVE RankProduct(_)
RankProduct(n) == IF n = 0 THEN 1 ELSE (RRF_CONSTANT + n) * RankProduct(n - 1)

RECURSIVE SumOver(_, _)
SumOver(S, D) ==
    IF S = {} THEN 0
    ELSE LET x == CHOOSE x \in S : TRUE
         IN D \div (RRF_CONSTANT + x[2]) + SumOver(S \ {x}, D)

\* the sum of 1/(60+r) over the occurrences of key, times the product of
\* all 60+r
ExactScore(groups, key) == SumOver(Occurrences(groups, key), RankProduct(MaxRank))

\* the first occurrence of key, counted in scan order
FirstSeen(groups, key) ==
    LET first == CHOOSE x \in Occurrences(groups, key) :
                    \A y \in Occurrences(groups, key) :
                        x[1] < y[1] \/ (x[1] = y[1] /\ x[2] <= y[2])
    IN first[1] * (MaxRank + 1) + first[2]

\* key a is to come before key b
RankedBefore(groups, a, b) ==
    \/ ExactScore(groups, a) > ExactScore(groups, b)
    \/ /\ ExactScore(groups, a) = ExactScore(groups, b)
       /\ FirstSeen(groups, a) < FirstSeen(groups, b)

\* C10: _rrf_merge scores each key with the sum of 1/(60+r) over its
\* occurrences and returns the keys by descending score, ties in
\* first-seen order.
C10_RrfOrder ==
    fusion.done =>
        LET groups == fusion.groups
            out == fusion.merged
            keys == KeysOf(groups)
        IN /\ Len(out) = Min(fusion.k, Cardinality(keys))
           /\ \A n \in DOMAIN out : RrfKey(out[n]) \in keys
           /\ \A n \in DOMAIN out : \A a \in keys :
                RankedBefore(groups, a, RrfKey(out[n])) =>
                    \E l \in 1..(n - 1) : RrfKey(out[l]) = a

\* the position <<list, rank>> of the first occurrence of key in scan order
FirstOccurrence(groups, key) ==
    CHOOSE x \in Occurrences(groups, key) :
        \A y \in Occurrences(groups, key) : x[1] < y[1] \/ (x[1] = y[1] /\ x[2] <= y[2])

\* C11: every item _rrf_merge returns carries the id of the first
\* occurrence of its (source, content) key, the lists scanned in order and
\* each list by rank; no two returned items share a key, and at most k items
\* are returned.
C11_RrfFirstSeenId ==
    fusion.done =>
        LET groups == fusion.groups
            out == fusion.merged
        IN /\ Len(out) <= fusion.k
           /\ \A n \in DOMAIN out :
                LET first == FirstOccurrence(groups, RrfKey(out[n]))
                IN /\ RrfKey(out[n]) \in KeysOf(groups)
                   /\ out[n].id = groups[first[1]][first[2]].id
           /\ \A n, l \in DOMAIN out : RrfKey(out[n]) = RrfKey(out[l]) => n = l

\* a merge of two keys, truncated to one item, whose key occurs in several
\* lists under different ids
C11_Witness ==
    /\ fusion.done
    /\ fusion.k = 1
    /\ Cardinality(KeysOf(fusion.groups)) = 2
    /\ Len(fusion.merged) = 1
    /\ Cardinality(Occurrences(fusion.groups, RrfKey(fusion.merged[1]))) >= 3

\* C12: for every token budget B >= 1 and every set of channel results, the
\* string get_context_with_budget returns has at most 4*B characters.
C12_ContextWithinBudget ==
    tool.op = "context" => Len(tool.ret) <= 4 * tool.arg

\* the ids the last search_memories_tool call returned
SearchedIds == {fusion.merged[n].id : n \in DOMAIN fusion.merged}

ForgotSearched == tool.op = "forget" /\ fusion.done /\ tool.arg \in SearchedIds

ProfileShape(id) ==
    /\ StartsWith(id, "profile:")
    /\ Len(id) > Len("profile:")
    /\ \A i \in (Len("profile:") + 1)..Len(id) : \E d \in 0..9 : ToString(d) = SubSeq(id, i, i)

UnrecognisedShape(id) ==
    /\ ~_is_user_memory_id(id)
    /\ ~ProfileShape(StrStrip(id))
    /\ ~StartsWith(StrStrip(id), "gmail:")
    /\ ~StartsWith(StrStrip(id), "service:")

\* C14: forget_memory_tool called with an id that is neither a UUID, nor
\* profile:<non-negative integer>, nor prefixed gmail: or service:, returns
\* the 'cannot be forgotten' message and leaves every user memory and every
\* profile note unchanged.
C14_UnrecognisedIdChangesNothing ==
    [][(tool.op # "forget" /\ tool'.op = "forget" /\ UnrecognisedShape(tool'.arg))
            => (tool'.ret = MsgOnlyStored /\ mem' = mem /\ profile' = profile)]_vars

C14_Witness ==
    /\ tool.op = "forget"
    /\ tool.arg = "profile:0:x"
    /\ tool.ret = "That information has been removed from your profile."

Unembedded(id) == {c \in DOMAIN chunks : chunks[c].ingestion_id = id /\ chunks[c].embedding = NULL}

\* C15: whenever update_index_counts has put an ingestion into the terminal
\* success state (status 'uploaded' with completed_at, reported completed and
\* then handed to the graph sync), no chunk of that ingestion has a null
\* embedding; an ingestion of the batch that still has un-embedded chunks is
\* not reported completed.
C15_CompletedHasAllEmbeddings ==
    /\ indexer.pc = "sync" =>
            \A id \in Range(indexer.ingestion_ids) :
                IF id \in Range(indexer.completed)
                THEN /\ Unembedded(id) = {}
                     /\ ingestions[id].status = "uploaded"
                     /\ ingestions[id].completed_at # NULLT
                ELSE Unembedded(id) # {}
    /\ \A id \in Range(indexer.synced) : Unembedded(id) = {}

C15_Witness ==
    /\ indexer.pc = "sync"
    /\ indexer.completed # <<>>
    /\ \E id \in Range(indexer.ingestion_ids) : Unembedded(id) # {}
    /\ \E id \in Range(indexer.completed) : ingestions[id].indexed_chunks > 1

\* C16: the ingestion status 'failed' is terminal: once an ingestion is
\* 'failed', no later indexer operation (mark_ingestions_indexing,
\* update_index_counts, a later process_pending_chunks run that fetches its
\* still un-embedded chunks again) changes its status.
C16_FailedIsTerminal ==
    [][\A id \in DOMAIN ingestions :
            ingestions[id].status = "failed" => ingestions'[id].status = "failed"]_vars

C16_Witness ==
    /\ indexer.runs = 2
    /\ indexer.pc = "sync"
    /\ \E id \in Range(indexer.completed) :
            ingestions[id].status = "uploaded" /\ ingestions[id].error = "Embedding failed"

Embedded == indexer.fails # <<>>

BatchTexts == [n \in DOMAIN indexer.rows |-> chunks[indexer.rows[n]].content]

SingleFails(n) == indexer.fails[<<n, n>>] >= MAX_RETRIES

\* C17: _embed_documents_resilient raises only if some single text, requested
\* alone, failed max_retries consecutive attempts; whenever every single-text
\* request succeeds within max_retries attempts it returns, whichever
\* multi-text requests fail, one vector per input text in input order.
C17_ResilientEmbedding ==
    Embedded =>
        /\ indexer.raised => \E n \in DOMAIN indexer.rows : SingleFails(n)
        /\ (\A n \in DOMAIN indexer.rows : ~SingleFails(n)) =>
                /\ ~indexer.raised
                /\ Len(indexer.vectors) = Len(BatchTexts)
                /\ \A n \in DOMAIN BatchTexts : indexer.vectors[n] = Vector(BatchTexts[n])

C17_Witness ==
    /\ Embedded
    /\ Len(indexer.rows) = 3
    /\ indexer.fails[<<1, 3>>] = MAX_RETRIES
    /\ indexer.fails[<<2, 3>>] = MAX_RETRIES
    /\ \A n \in 1..3 : indexer.fails[<<n, n>>] = MAX_RETRIES - 1
    /\ indexer.vectors = <<Vector("a"), Vector("b"), Vector("c")>>

\* C18: on every non-empty sentence list with positive token counts, every
\* chunk_size >= 1 and every overlap ratio in [0, 1), chunk_section_text
\* terminates and each window after the first starts at a sentence index
\* strictly greater than the start of the window before it.
C18_CursorAdvances ==
    [][(etl.pc = "chunk" /\ etl'.pc = "chunk" /\ Len(etl'.windows) > Len(etl.windows))
            => etl'.cursor > etl.cursor]_vars

C18_Witness ==
    /\ etl.pc = "chunk"
    /\ etl.tokenized = <<2, 2>> /\ etl.chunk_size = 2 /\ etl.chunk_overlap = 25
    /\ etl.cursor = 0
    /\ Len(etl.windows) = MaxWindows
    /\ \A w \in DOMAIN etl.windows : etl.windows[w] = [text |-> Sentence(1), tokens |-> 2]


\* the sentences lo..hi of the section joined by single spaces
SentenceRun(lo, hi) ==
    LET RECURSIVE Run(_)
        Run(k) == IF k = lo THEN Sentence(lo) ELSE Run(k - 1) \o " " \o Sentence(k)
    IN Run(hi)

\* the token counts of the sentences lo..hi added up
RunTokens(lo, hi) ==
    LET RECURSIVE Count(_)
        Count(k) == IF k < lo THEN 0 ELSE Count(k - 1) + etl.tokenized[k]
    IN Count(hi)

\* C19: every chunk of chunk_section_text is the join of a contiguous run of
\* whole sentences of the section, its token count is the sum of the counts
\* of those sentences, and the count exceeds chunk_size only when the chunk
\* is a single sentence.
C19_ChunksAreSentenceRuns ==
    \A w \in DOMAIN etl.windows :
        \E lo \in DOMAIN etl.tokenized : \E hi \in lo..Len(etl.tokenized) :
            /\ etl.windows[w].text = SentenceRun(lo, hi)
            /\ etl.windows[w].tokens = RunTokens(lo, hi)
            /\ etl.windows[w].tokens > etl.chunk_size => lo = hi

\* chunk_section_text has returned two overlapping chunks of two sentences
\* each
C19_Witness ==
    /\ etl.pc = "gate"
    /\ etl.tokenized = <<1, 1, 1>> /\ etl.chunk_size = 2
    /\ etl.windows = <<[text |-> "S1. S2.", tokens |-> 2], [text |-> "S2. S3.", tokens |-> 2]>>

\* chunk_section_text has returned a lone sentence that exceeds the budget
OversizeSentenceChunk ==
    /\ etl.pc = "gate"
    /\ etl.tokenized = <<3>> /\ etl.chunk_size = 2
    /\ etl.windows = <<[text |-> "S1.", tokens |-> 3]>>


\* C20: when enforce_quality rejects the metrics of the slice, run_etl makes
\* no embedding request and writes none of its output artifacts; when
\* enforce_metrics rejects, load_slice issues no graph upsert.
C20_GateIsHardStop ==
    /\ etl.gate = "rejected" => etl.embed_requests = 0 /\ etl.artifacts = <<>>
    /\ etl.load_gate = "rejected" => etl.upserts = <<>>

\* run_etl has raised at the gate on a slice of one chunk where two are
\* required
C20_Witness ==
    /\ etl.pc = "raised"
    /\ etl.gate = "rejected"
    /\ Len(etl.windows) = 1 /\ etl.min_chunks = 2
    /\ etl.chunk_overlap = 25

\* load_slice has raised in enforce_metrics on a slice run_etl accepted
LoadRejected ==
    /\ etl.pc = "load_raised"
    /\ etl.gate = "passed" /\ etl.load_gate = "rejected"
    /\ Len(etl.artifacts) = 6


\* the accepted pairs of the last sync that chunk x is an endpoint of
PairsOf(x) == {e \in DOMAIN sim.last.edge_specs :
                    x \in {sim.last.edge_specs[e][1], sim.last.edge_specs[e][2]}}

\* the last sync accepted at most degree_cap pairs at every chunk
AcceptedWithinCap ==
    \A x \in SimChunks : Cardinality(PairsOf(x)) <= sim.last.degree_cap

\* C21: after sync_similarity_neighbors_for_ingestions, whatever the candidate
\* neighbour structure, no chunk is an endpoint of more than degree_cap
\* accepted pairs and no chunk's stored neighbour list has more than
\* degree_cap entries.
C21_DegreeCap ==
    sim.syncs > 0 =>
        /\ AcceptedWithinCap
        /\ \A x \in SimChunks : Len(sim.stored[x]) <= sim.last.degree_cap


\* a second sync with degree_cap 1 over three chunks that are all candidates
\* of each other stays within the cap, and a chunk it gave no pair keeps two
\* stored neighbours
C21_Witness ==
    /\ sim.syncs = 2
    /\ sim.last.degree_cap = 1
    /\ sim.embedded = SimChunks
    /\ \A pair \in DOMAIN sim.scores : sim.scores[pair] >= sim.last.min_score
    /\ sim.last.edge_specs # <<>>
    /\ AcceptedWithinCap
    /\ \E x \in SimChunks : x \notin DOMAIN sim.last.trimmed /\ Len(sim.stored[x]) = 2


\* chunk y is in the stored neighbour list of chunk x
StoredNeighbor(x, y) ==
    \E n \in DOMAIN sim.stored[x] : sim.stored[x][n].chunkNodeId = ChunkNodeId(y)

\* C22: after a similarity sync of an ingestion the stored neighbour relation
\* is symmetric, for every top_k and degree_cap: b is in the stored list of a
\* exactly when a is in the stored list of b.
C22_StoredNeighborsSymmetric ==
    sim.syncs > 0 =>
        \A x, y \in SimChunks : StoredNeighbor(x, y) <=> StoredNeighbor(y, x)

\* the first sync of the ingestion, with degree_cap above top_k, accepted two
\* pairs at one chunk and stored one of them on it: the other endpoint of
\* the dropped pair lists the chunk, the chunk does not list it
C22_Witness ==
    /\ sim.syncs = 1
    /\ sim.last.top_k = 1 /\ sim.last.degree_cap = 2
    /\ \E x, y \in SimChunks :
        /\ Cardinality(PairsOf(x)) = 2
        /\ Len(sim.stored[x]) = 1
        /\ StoredNeighbor(y, x) /\ ~StoredNeighbor(x, y)


\* C26: after a similarity sync of an ingestion completes, every chunk of the
\* ingestion holds only neighbour entries computed by that sync; a chunk the
\* sync gives no neighbour (or any chunk, when the sync accepts no pair) ends
\* with an empty or absent list, never with earlier entries.
C26_OnlyNeighborsOfLastSync ==
    sim.syncs > 0 =>
        \A x \in SimChunks :
            sim.stored[x] = IF x \in DOMAIN sim.last.trimmed THEN sim.last.trimmed[x] ELSE <<>>

\* the second sync accepted a pair and gave one chunk no neighbour: the
\* chunk still holds the entry of the first sync
C26_Witness ==
    /\ sim.syncs = 2
    /\ sim.last.edge_specs # <<>>
    /\ \E x \in SimChunks :
        /\ PairsOf(x) = {}
        /\ x \notin DOMAIN sim.last.trimmed
        /\ sim.stored[x] # <<>>

\* the second sync accepted no pair at all and every earlier list is kept
StaleAfterEmptySync ==
    /\ sim.syncs = 2
    /\ sim.last.edge_specs = <<>>
    /\ \E x \in SimChunks : sim.stored[x] # <<>>


\* rows i and j are live rows of one (user, source_type, source_id, scope)
\* with a source id
SameLiveSource(i, j) ==
    /\ mem[i].deleted_at = NULLT /\ mem[j].deleted_at = NULLT
    /\ mem[i].source_id # NULLID
    /\ mem[i].user = mem[j].user
    /\ mem[i].source_type = mem[j].source_type
    /\ mem[i].source_id = mem[j].source_id
    /\ mem[i].scope = mem[j].scope

\* C23: in every reachable state, also when two executions of
\* run_memory_ingestion_for_user for one user interleave their store calls,
\* user_memories holds at most one live row per (user, source_type,
\* source_id, scope) with a non-null source_id.
C23_OneLiveRowPerSource ==
    \A i, j \in DOMAIN mem : SameLiveSource(i, j) => i = j

\* both executions looked thread B up before either wrote, both inserted it
C23_Witness ==
    /\ \A p \in Procs : run[p].pc = "idle" /\ run[p].result.returned /\ run[p].result.inserted = 1
    /\ \E i, j \in DOMAIN mem :
        /\ i # j /\ SameLiveSource(i, j)
        /\ mem[i].user = USER /\ mem[i].source_type = "gmail"
        /\ mem[i].source_id = <<"B">> /\ mem[i].scope = "extraction"


\* C24: in process_pending_chunks, before the first embedding attempt for a
\* fetched batch, every ingestion that owns a chunk of the batch has status
\* 'indexing'; an ingestion whose status was 'uploaded' has moved to it.
C24_IndexingBeforeEmbedding ==
    indexer.pc = "embed" =>
        \A id \in Range(indexer.ingestion_ids) : ingestions[id].status = "indexing"

\* the first batch of the first run has been marked and is about to be
\* embedded: the ingestion that was 'chunked' is 'indexing', the one that
\* was 'uploaded' still is
C24_Witness ==
    /\ indexer.pc = "embed"
    /\ indexer.runs = 1 /\ indexer.processed_total = 0
    /\ Range(indexer.ingestion_ids) = {"i1", "i2"}
    /\ ingestions["i1"].status = "uploaded"
    /\ ingestions["i2"].status = "indexing"


\* every text of the batch that ingestion id owns is embedded when it is
\* requested alone, under the failures of the embedding attempt just made
AllEmbeddable(id, fails) ==
    \A n \in DOMAIN indexer.rows :
        chunks[indexer.rows[n]].ingestion_id = id => fails[<<n, n>>] < MAX_RETRIES

\* C25: when resilient embedding is exhausted for a fetched batch that holds
\* chunks of several ingestions, only the ingestion that owns the failing
\* text is marked 'failed'; an ingestion all of whose texts in the batch can
\* be embedded is not marked failed.
C25_OnlyOwnerMarkedFailed ==
    [][(indexer.pc = "embed" /\ indexer'.raised) =>
            \A id \in Range(indexer.ingestion_ids) :
                AllEmbeddable(id, indexer'.fails) => ingestions'[id] = ingestions[id]]_vars

\* the embedding of a batch of two ingestions was exhausted on a text of i1
\* while every text of i2 can be embedded, and i2 is marked failed
C25_Witness ==
    /\ indexer.pc = "idle" /\ indexer.raised
    /\ indexer.runs = 1
    /\ Range(indexer.ingestion_ids) = {"i1", "i2"}
    /\ ~AllEmbeddable("i1", indexer.fails)
    /\ AllEmbeddable("i2", indexer.fails)
    /\ ingestions["i1"].status = "failed"
    /\ ingestions["i2"].status = "failed" /\ ingestions["i2"].error = "Embedding failed"


\* the reply is not a JSON array of strings
NotStringArray(reply) ==
    \/ reply.kind # "array"
    \/ \E k \in DOMAIN reply.data : reply.data[k].py # "str"

\* C27: if the reply of the condensation LLM is not a JSON array of strings
\* (unparseable text, a JSON value that is no array, an array of objects or
\* numbers), condensation has no usable result: it creates no memory, it
\* soft-deletes no original, and the run does not fail.
C27_MalformedReplyCondensesNothing ==
    [][\A p \in SeqProcs :
            (InCondense(p) /\ NotStringArray(world.llm[run[p].csource])) =>
                mem' = mem /\ run'[p].pc # "aborted"]_vars

\* the LLM answered the array [5]: the run returned having stored the memory
\* "5" and soft-deleted the rows it condensed
C27_Witness ==
    /\ world.llm.gmail = [kind |-> "array", data |-> <<[py |-> "int", str |-> "5"]>>]
    /\ run[1].pc = "idle" /\ run[1].result.returned
    /\ run[1].result.condensed >= 1
    /\ run[1].result.condensed_deleted >= CONDENSE_MIN_ITEMS
    /\ \E i \in DOMAIN mem : /\ mem[i].content = "5" /\ mem[i].scope = "condensed"
                             /\ mem[i].deleted_at = NULLT
    /\ \E i \in DOMAIN mem : mem[i].scope = "extraction" /\ mem[i].deleted_at # NULLT

\* the reply was unparseable or no array: a run has returned and condensed
\* nothing
MalformedReplyIgnored ==
    /\ world.llm.gmail.kind \in {"error", "other"}
    /\ Len(mem) > CONDENSE_MIN_ITEMS
    /\ run[1].pc = "idle" /\ run[1].result.returned
    /\ run[1].result.condensed = 0 /\ run[1].result.condensed_deleted = 0


\* the Gmail threads whose extraction memory the last forget_memory_tool call
\* soft-deleted, named by gmail:<thread_id> or by the UUID of the row
ForgottenThreads ==
    IF tool.op # "forget" THEN {}
    ELSE IF tool.arg.shape = "gmail" /\ tool.ret = "That Gmail memory has been forgotten."
    THEN {tool.arg.rest}
    ELSE IF /\ tool.arg.shape = "uuid" /\ tool.ret = "That memory has been forgotten."
            /\ mem[tool.arg.row].source_type = "gmail"
            /\ mem[tool.arg.row].scope = "extraction"
    THEN {mem[tool.arg.row].source_id}
    ELSE {}

\* the source still returns the thread as a candidate
StillReturned(source_id) ==
    \E k \in DOMAIN _fetch_gmail_candidates(world.gmail) :
        _fetch_gmail_candidates(world.gmail)[k].source_id = source_id

\* C28: once forget_memory_tool has soft-deleted the extraction memory of a
\* Gmail thread, no later run of run_memory_ingestion_for_user creates a live
\* memory for the same (user, 'gmail', thread_id, 'extraction') key while the
\* source still returns the thread.
C28_ForgottenStaysForgotten ==
    \A source_id \in ForgottenThreads :
        StillReturned(source_id) =>
            get_user_memory_by_source(mem, USER, "gmail", source_id, "extraction") = {}

\* thread A was forgotten by gmail:A, a run followed and returned, and a
\* live memory of thread A is in the store again beside the forgotten row
C28_Witness ==
    /\ tool.op = "forget" /\ tool.arg = MemoryId("gmail", 0, <<"A">>)
    /\ ForgottenThreads = {<<"A">>}
    /\ StillReturned(<<"A">>)
    /\ run[1].pc = "idle" /\ run[1].result.returned /\ run[1].result.inserted >= 1
    /\ \E i, j \in DOMAIN mem :
        /\ i < j
        /\ mem[i].user = USER /\ mem[j].user = USER
        /\ mem[i].source_type = "gmail" /\ mem[j].source_type = "gmail"
        /\ mem[i].source_id = <<"A">> /\ mem[j].source_id = <<"A">>
        /\ mem[i].deleted_at # NULLT /\ mem[j].deleted_at = NULLT

\* the same after the memory was forgotten by its UUID
ForgottenByUuidReturns ==
    /\ tool.op = "forget" /\ tool.arg.shape = "uuid"
    /\ ForgottenThreads = {<<"A">>}
    /\ get_user_memory_by_source(mem, USER, "gmail", <<"A">>, "extraction") # {}


\* C29: in run_etl two distinct chunks of a slice (another section, or
\* another chunk index in one section) never get the same node_id, and two
\* distinct documents of a slice never get the same document node_id, so
\* that the upsert of the slice by id keeps one row per chunk and document.
C29_NodeIdsDistinct ==
    /\ \A i, j \in DOMAIN slice.chunks :
            slice.chunks[i].node_id = slice.chunks[j].node_id => i = j
    /\ \A i, j \in DOMAIN slice.documents :
            slice.documents[i].node_id = slice.documents[j].node_id => i = j
    /\ slice.pc = "loaded" =>
            Cardinality(DOMAIN slice.graph_nodes) >= Len(slice.documents) + Len(slice.chunks)

\* a slice of the files a and b, one ROOT section each, two chunks per
\* section: after the load graph_nodes holds one document, one section and
\* one chunk
C29_Witness ==
    /\ slice.pc = "loaded"
    /\ Len(slice.documents) = 2 /\ Len(slice.sections) = 2 /\ Len(slice.chunks) = 4
    /\ \A k \in DOMAIN slice.documents : slice.documents[k].node_id = "DOCUMENT::s1"
    /\ \A k \in DOMAIN slice.sections : slice.sections[k].node_id = "SECTION::DOCUMENT::s1::Uk9PVA"
    /\ \A k \in DOMAIN slice.chunks :
            slice.chunks[k].node_id = "CHUNK::SECTION::DOCUMENT::s1::Uk9PVA"
    /\ Cardinality(DOMAIN slice.graph_nodes) = 3


\* the text the retrieval returned under an id
RetrievedText(memory_id) ==
    fusion.merged[CHOOSE n \in DOMAIN fusion.merged : fusion.merged[n].id = memory_id].content

\* C30: forget_memory_tool('profile:i') removes exactly the profile note that
\* the preceding retrieval returned under the id profile:i, also when another
\* profile note was removed or inserted between the retrieval and the forget
\* call: unless the gateway fails, the notes after the call are the notes
\* before it without the retrieved text.
C30_ForgetRemovesRetrievedNote ==
    [][(/\ tool' # tool
        /\ tool'.op = "forget"
        /\ tool'.arg \in RetrievedNoteIds
        /\ tool'.ret # "Could not remove that profile note. Please try again.")
       => profile' = RemoveNote(profile, RetrievedText(tool'.arg))]_vars

\* the forget of a retrieved id answered that the note has been removed,
\* and the note retrieved under that id is still in the profile
C30_Witness ==
    /\ tool.op = "forget"
    /\ tool.arg \in RetrievedNoteIds
    /\ tool.ret = "That information has been removed from your profile."
    /\ \E n \in DOMAIN profile : profile[n] = RetrievedText(tool.arg)

\* the forget of a retrieved id finds no such note after an earlier forget
\* moved the note one position down
RetrievedNoteNotFound ==
    /\ tool.op = "forget"
    /\ tool.arg \in RetrievedNoteIds
    /\ tool.ret = "No such profile note found, or it was already removed."
    /\ \E n \in DOMAIN profile : profile[n] = RetrievedText(tool.arg)

====
